---- MODULE Spec2Model ----
(***************************************************************************)
(* Argument resolution of the AWS energy labeler command line interface:   *)
(* get_parser / get_arguments of awsenergylabelercli.py and the coercers   *)
(* and argparse actions of validators.py.                                  *)
(*                                                                         *)
(* Text is a tuple of one-character strings, so that the coercers split    *)
(* and match it character by character as the code does.  A Python value   *)
(* is a record [t, s, l, n]: its type tag, its text, its items, its        *)
(* number.                                                                 *)
(***************************************************************************)
EXTENDS Integers, Sequences, FiniteSets, TLC

(***************************************************************************)
(* Bounds of the model.                                                    *)
(***************************************************************************)
\* how many command-line flags and environment variables, other than the
\* region's, one invocation supplies
MaxSupplied == 3

(***************************************************************************)
(* Python values.                                                          *)
(***************************************************************************)
None == [t |-> "none", s |-> <<>>, l |-> <<>>, n |-> 0]

Str(chars) == [t |-> "str", s |-> chars, l |-> <<>>, n |-> 0]

List(items) == [t |-> "list", s |-> <<>>, l |-> items, n |-> 0]

PySet(items) == [t |-> "set", s |-> <<>>, l |-> items, n |-> 0]

PyInt(i) == [t |-> "int", s |-> <<>>, l |-> <<>>, n |-> i]

Bool(b) == [t |-> "bool", s |-> <<>>, l |-> <<>>, n |-> IF b THEN 1 ELSE 0]

\* pathlib.Path: an object without __bool__ or __len__
Path(chars) == [t |-> "path", s |-> chars, l |-> <<>>, n |-> 0]

\* an environment variable that is not in os.environ, a flag that is not in argv
Unset == [t |-> "unset", s |-> <<>>, l |-> <<>>, n |-> 0]

\* Python's truth value of an object
Truthy(v) ==
    CASE v.t = "none" -> FALSE
      [] v.t = "unset" -> FALSE
      [] v.t = "str" -> v.s # <<>>
      [] v.t = "list" -> v.l # <<>>
      [] v.t = "set" -> v.l # <<>>
      [] v.t = "int" -> v.n # 0
      [] v.t = "bool" -> v.n = 1
      [] OTHER -> TRUE

(***************************************************************************)
(* Sample texts.                                                           *)
(***************************************************************************)
EU_WEST_1 == <<"e", "u", "-", "w", "e", "s", "t", "-", "1">>

US_EAST_1 == <<"u", "s", "-", "e", "a", "s", "t", "-", "1">>

BOB == <<"b", "o", "b">>

ORG == <<"O", "R", "G">>

ENV_ORG == <<"E", "O", "R", "G">>

ZONE == <<"Z", "O", "N", "E">>

ID_1 == <<"1", "2", "3", "4", "5", "6", "7", "8", "9", "0", "1", "2">>

ID_2 == <<"2", "3", "4", "5", "6", "7", "8", "9", "0", "1", "2", "3">>

BAD_ID == <<"a">> \o ID_1

CIS == <<"c", "i", "s">>

PCI_DSS == <<"p", "c", "i", "-", "d", "s", "s">>

AFSBP ==
    <<"a", "w", "s", "-", "f", "o", "u", "n", "d", "a", "t", "i", "o", "n", "a", "l", "-">>
    \o <<"s", "e", "c", "u", "r", "i", "t", "y", "-", "b", "e", "s", "t", "-", "p", "r", "a", "c", "t", "i", "c", "e", "s">>

S3_URL == <<"s", "3", ":", "/", "/", "b">>

S4_URL == <<"s", "4", ":", "/", "/", "t">>

Digits == {"0", "1", "2", "3", "4", "5", "6", "7", "8", "9"}

(***************************************************************************)
(* awsenergylabelerlib, the library the command line validates against.    *)
(***************************************************************************)
AccountIdLength == 12

SECURITY_HUB_ACTIVE_REGIONS == {EU_WEST_1, US_EAST_1}

SecurityHubFrameworks == {AFSBP, CIS, PCI_DSS}

DEFAULT_SECURITY_HUB_FRAMEWORKS == PySet(<<AFSBP>>)

is_valid_account_id(chars) ==
    /\ Len(chars) = AccountIdLength
    /\ \A i \in 1..Len(chars) : chars[i] \in Digits

is_valid_region(chars) == chars \in SECURITY_HUB_ACTIVE_REGIONS

\* the items of a value a list validator of the library looks at
ItemsOf(v) ==
    CASE v.t = "str" -> IF v.s = <<>> THEN <<>> ELSE <<v.s>>
      [] v.t = "list" -> v.l
      [] v.t = "set" -> v.l
      [] OTHER -> <<>>

\* validate_account_ids raises InvalidAccountListProvided
InvalidAccountList(v) ==
    \E i \in 1..Len(ItemsOf(v)) : ~is_valid_account_id(ItemsOf(v)[i])

\* validate_regions raises InvalidRegionListProvided
InvalidRegionList(v) ==
    \E i \in 1..Len(ItemsOf(v)) : ~is_valid_region(ItemsOf(v)[i])

\* SecurityHub.validate_frameworks raises InvalidFrameworks
InvalidFrameworks(v) ==
    \E i \in 1..Len(ItemsOf(v)) : ItemsOf(v)[i] \notin SecurityHubFrameworks

(***************************************************************************)
(* validators.py: the coercers.  A coercer returns [ok, value, msg].       *)
(***************************************************************************)
\* a message: the option argparse names in front of it ("" for none), its
\* literal text with {} where a value is formatted in, and that value
Msg(option, text, arg) == [option |-> option, text |-> text, arg |-> arg]

NoMsg == Msg("", "", None)

Ok(v) == [ok |-> TRUE, value |-> v, msg |-> NoMsg]

\* raise ArgumentTypeError(text formatted with arg)
TypeError(text, arg) == [ok |-> FALSE, value |-> None, msg |-> Msg("", text, arg)]

aws_account_id(chars) ==
    IF ~is_valid_account_id(chars)
    THEN TypeError("Account id {} provided does not seem to be valid.", Str(chars))
    ELSE Ok(Str(chars))

security_hub_region(chars) ==
    IF ~is_valid_region(chars)
    THEN TypeError("Region {} provided does not seem to be valid, valid regions are {SECURITY_HUB_ACTIVE_REGIONS}.",
                   Str(chars))
    ELSE Ok(Str(chars))

\* the characters of the class [,|\s]: comma, pipe, and of the whitespace the
\* space, tab, newline, carriage return and form feed
DelimitingCharacters == {",", "|", " ", "\t", "\n", "\r", "\f"}

\* re.split(delimiting_characters, chars): the pieces between the delimiters,
\* the empty ones included
ReSplit(chars) ==
    LET delimiters == {i \in 1..Len(chars) : chars[i] \in DelimitingCharacters}
        edges == {0} \cup delimiters \cup {Len(chars) + 1}
        \* the k-th edge from the left, counting from 0
        edge(k) == CHOOSE e \in edges : Cardinality({f \in edges : f < e}) = k
    IN  [k \in 1..(Cardinality(delimiters) + 1) |->
            SubSeq(chars, edge(k - 1) + 1, edge(k) - 1)]

\* [entry for entry in pieces if entry]
RECURSIVE NonEmptyEntries(_)
NonEmptyEntries(pieces) ==
    IF pieces = <<>> THEN <<>>
    ELSE IF Head(pieces) # <<>>
         THEN <<Head(pieces)>> \o NonEmptyEntries(Tail(pieces))
         ELSE NonEmptyEntries(Tail(pieces))

\* character_delimited_list_variable returning None when no entry is left
character_delimited_list_variable_NoneWhenEmpty(chars) ==
    LET result == NonEmptyEntries(ReSplit(chars))
    IN  IF result = <<>> THEN None
        ELSE IF Len(result) = 1 THEN Str(result[1]) ELSE List(result)

\* character_delimited_list_variable without the unwrapping of a single entry
character_delimited_list_variable_AlwaysList(chars) ==
    List(NonEmptyEntries(ReSplit(chars)))

character_delimited_list_variable(chars) ==
    LET result == NonEmptyEntries(ReSplit(chars))
    IN  IF Len(result) = 1 THEN Str(result[1]) ELSE List(result)

DigitValue(c) ==
    CASE c = "0" -> 0 [] c = "1" -> 1 [] c = "2" -> 2 [] c = "3" -> 3
      [] c = "4" -> 4 [] c = "5" -> 5 [] c = "6" -> 6 [] c = "7" -> 7
      [] c = "8" -> 8 [] c = "9" -> 9

RECURSIVE DecimalValue(_)
DecimalValue(chars) ==
    IF chars = <<>> THEN 0
    ELSE 10 * DecimalValue(SubSeq(chars, 1, Len(chars) - 1))
         + DigitValue(chars[Len(chars)])

IsDecimal(chars) == chars # <<>> /\ \A i \in 1..Len(chars) : chars[i] \in Digits

\* int(value) of a text: [ok, n]; not ok is ValueError
IntOf(chars) ==
    IF IsDecimal(chars) THEN [ok |-> TRUE, n |-> DecimalValue(chars)]
    ELSE IF chars # <<>> /\ Head(chars) = "-" /\ IsDecimal(Tail(chars))
         THEN [ok |-> TRUE, n |-> 0 - DecimalValue(Tail(chars))]
    ELSE IF chars # <<>> /\ Head(chars) = "+" /\ IsDecimal(Tail(chars))
         THEN [ok |-> TRUE, n |-> DecimalValue(Tail(chars))]
    ELSE [ok |-> FALSE, n |-> 0]

DigitChar(d) ==
    CASE d = 0 -> "0" [] d = 1 -> "1" [] d = 2 -> "2" [] d = 3 -> "3"
      [] d = 4 -> "4" [] d = 5 -> "5" [] d = 6 -> "6" [] d = 7 -> "7"
      [] d = 8 -> "8" [] d = 9 -> "9"

\* str(n) of a natural number
RECURSIVE NatStr(_)
NatStr(n) == IF n < 10 THEN <<DigitChar(n)>> ELSE NatStr(n \div 10) \o <<DigitChar(n % 10)>>

\* repr of the texts of a list, joined by ', '; the texts hold letters only
RECURSIVE ReprJoin(_)
ReprJoin(items) ==
    IF items = <<>> THEN <<>>
    ELSE <<"'">> \o Head(items) \o <<"'">>
         \o (IF Len(items) > 1 THEN <<",", " ">> ELSE <<>>) \o ReprJoin(Tail(items))

\* str(value) writing nothing for an object that is no text
PyStr_OfTextOnly(value) == IF value.t = "str" THEN value.s ELSE <<>>

\* str(value): the text Python writes for an object
PyStr(value) ==
    CASE value.t = "str" -> value.s
      [] value.t = "none" -> <<"N", "o", "n", "e">>
      [] value.t = "bool" -> IF value.n = 1 THEN <<"T", "r", "u", "e">>
                             ELSE <<"F", "a", "l", "s", "e">>
      [] value.t = "int" -> IF value.n < 0 THEN <<"-">> \o NatStr(0 - value.n)
                            ELSE NatStr(value.n)
      [] value.t = "list" -> <<"[">> \o ReprJoin(value.l) \o <<"]">>

\* int(value): a text is parsed, a number or a boolean is its own value
IntOfValue(value) ==
    IF value.t = "str" THEN IntOf(value.s) ELSE [ok |-> TRUE, n |-> value.n]

\* positive_integer accepting zero
positive_integer_AllowsZero(value) ==
    IF value = None THEN Ok(value)
    ELSE LET num_value == IF IntOfValue(value).ok THEN IntOfValue(value).n ELSE -1
         IN  IF num_value < 0
             THEN TypeError("{} is an invalid positive int value", value)
             ELSE Ok(PyInt(num_value))

\* positive_integer(value), for None, a text, a number or a boolean
positive_integer(value) ==
    IF value = None THEN Ok(value)
    ELSE LET num_value == IF IntOfValue(value).ok THEN IntOfValue(value).n ELSE -1
         IN  IF num_value <= 0
             THEN TypeError("{} is an invalid positive int value", value)
             ELSE Ok(PyInt(num_value))

(***************************************************************************)
(* The local files an invocation can name.  A file is a record: whether    *)
(* its text is JSON, whether the JSON is a mapping, the text recorded      *)
(* under "Hash:" (<<>> for none) and the rest of its content.              *)
(***************************************************************************)
MISSING_FILE == <<"m", ".", "j">>

GARBAGE_FILE == <<"g", ".", "j">>

NOHASH_FILE == <<"n", ".", "j">>

VALID_FILE == <<"v", ".", "j">>

INVALID_FILE == <<"i", ".", "j">>

DIGEST_1 == <<"h", "1">>

DIGEST_2 == <<"h", "2">>

FileSystem ==
    (GARBAGE_FILE :> [json |-> FALSE, mapping |-> FALSE, hash |-> <<>>, data |-> "none"])
    @@ (NOHASH_FILE :> [json |-> TRUE, mapping |-> TRUE, hash |-> <<>>, data |-> "metadata"])
    @@ (VALID_FILE :> [json |-> TRUE, mapping |-> TRUE, hash |-> DIGEST_1, data |-> "metadata"])
    @@ (INVALID_FILE :> [json |-> TRUE, mapping |-> TRUE, hash |-> DIGEST_1, data |-> "tampered"])

\* hashlib.sha256 over the serialised content: distinct contents of the
\* sample files have distinct digests
calculate_file_hash(data) ==
    CASE data = "metadata" -> DIGEST_1
      [] data = "tampered" -> DIGEST_2
      [] OTHER -> <<"h", "0">>

valid_local_file(chars) ==
    IF chars \notin DOMAIN FileSystem
    THEN TypeError("Local file path \"{}\" provided, does not exist.", Str(chars))
    ELSE Ok(Path(chars))

(***************************************************************************)
(* awsenergylabelercli.py, get_parser: the options, in declaration order.  *)
(* The options of the logging set-up, of the report (--to-json,            *)
(* --report-suppressed-findings), of the thresholds and of the query       *)
(* filter are left out: no check of get_arguments reads them.  The         *)
(* environment of the model sets no                                        *)
(* AWS_LABELER_REPORT_CLOSED_FINDINGS_DAYS.                                *)
(***************************************************************************)
Dests ==
    <<"region", "organizations_zone_name", "audit_zone_name", "single_account_id",
      "frameworks", "allowed_account_ids", "denied_account_ids", "allowed_regions",
      "denied_regions", "export_path", "export_all", "report_closed_findings_days",
      "validate_metadata_file", "version">>

DestSet == {Dests[i] : i \in 1..Len(Dests)}

\* '/'.join(action.option_strings)
OptionStrings(dest) ==
    CASE dest = "region" -> "--region/-r"
      [] dest = "organizations_zone_name" -> "--organizations-zone-name/-o"
      [] dest = "audit_zone_name" -> "--audit-zone-name/-z"
      [] dest = "single_account_id" -> "--single-account-id/-s"
      [] dest = "frameworks" -> "--frameworks/-f"
      [] dest = "allowed_account_ids" -> "--allowed-account-ids/-a"
      [] dest = "denied_account_ids" -> "--denied-account-ids/-d"
      [] dest = "allowed_regions" -> "--allowed-regions/-ar"
      [] dest = "denied_regions" -> "--denied-regions/-dr"
      [] dest = "export_path" -> "--export-path/-p"
      [] dest = "export_all" -> "--export-metrics-only/-e"
      [] dest = "report_closed_findings_days" -> "--report-closed-findings-days/-rd"
      [] dest = "validate_metadata_file" -> "--validate-metadata-file/-vm"
      [] dest = "version" -> "--version/-v"

\* action=default_environment_variable(<name>): the options bound to a variable
EnvVarOf(dest) ==
    CASE dest = "region" -> "AWS_LABELER_REGION"
      [] dest = "organizations_zone_name" -> "AWS_LABELER_ORGANIZATIONS_ZONE_NAME"
      [] dest = "audit_zone_name" -> "AWS_LABELER_AUDIT_ZONE_NAME"
      [] dest = "single_account_id" -> "AWS_LABELER_SINGLE_ACCOUNT_ID"
      [] dest = "allowed_account_ids" -> "AWS_LABELER_ALLOWED_ACCOUNT_IDS"
      [] dest = "denied_account_ids" -> "AWS_LABELER_DENIED_ACCOUNT_IDS"
      [] dest = "allowed_regions" -> "AWS_LABELER_ALLOWED_REGIONS"
      [] dest = "denied_regions" -> "AWS_LABELER_DENIED_REGIONS"
      [] dest = "export_path" -> "AWS_LABELER_EXPORT_PATH"
      [] OTHER -> ""

EnvBoundDests == {d \in DestSet : EnvVarOf(d) # ""}

\* the variables of os.environ the modelled options read
EnvNames ==
    {EnvVarOf(d) : d \in EnvBoundDests}
    \cup {"AWS_LABELER_FRAMEWORKS", "AWS_LABELER_EXPORT_ONLY_METRICS"}

\* action=OverridingArgument
OverridingDests == {"validate_metadata_file", "version"}

\* type=<coercer>
TypeOf(dest) ==
    CASE dest = "region" -> "security_hub_region"
      [] dest = "single_account_id" -> "aws_account_id"
      [] dest \in {"frameworks", "allowed_account_ids", "denied_account_ids",
                   "allowed_regions", "denied_regions"} -> "character_delimited_list_variable"
      [] dest = "report_closed_findings_days" -> "positive_integer"
      [] dest = "validate_metadata_file" -> "valid_local_file"
      [] OTHER -> "none"

\* argparse's _get_value: the option's type applied to a text
GetValue(dest, chars) ==
    CASE TypeOf(dest) = "security_hub_region" -> security_hub_region(chars)
      [] TypeOf(dest) = "aws_account_id" -> aws_account_id(chars)
      [] TypeOf(dest) = "character_delimited_list_variable" ->
            Ok(character_delimited_list_variable(chars))
      [] TypeOf(dest) = "positive_integer" -> positive_integer(Str(chars))
      [] TypeOf(dest) = "valid_local_file" -> valid_local_file(chars)
      [] OTHER -> Ok(Str(chars))

\* DefaultEnvVar.__init__ without the look-up of the variable in os.environ
DefaultEnvVarInit_IgnoresEnviron(environ, variable_name, default, required) ==
    [default |-> default, required |-> required /\ ~Truthy(default)]

\* DefaultEnvVar.__init__ dropping required whenever the variable is set
DefaultEnvVarInit_SetIsEnough(environ, variable_name, default, required) ==
    LET dflt == IF environ[variable_name] # Unset THEN environ[variable_name] ELSE default
    IN  [default |-> dflt, required |-> required /\ environ[variable_name] = Unset]

\* DefaultEnvVar.__init__: the default and the required flag the action is
\* built with, from the keyword arguments of add_argument
DefaultEnvVarInit(environ, variable_name, default, required) ==
    LET dflt == IF environ[variable_name] # Unset THEN environ[variable_name] ELSE default
    IN  [default |-> dflt, required |-> required /\ ~Truthy(dflt)]

\* the parser get_parser returns: each option's default and required flag
get_parser(environ) ==
    [dest \in DestSet |->
        CASE dest = "region" ->
                DefaultEnvVarInit(environ, EnvVarOf(dest), None, TRUE)
          [] dest \in EnvBoundDests \ {"region"} ->
                DefaultEnvVarInit(environ, EnvVarOf(dest), None, FALSE)
          [] dest = "frameworks" ->
                [default |-> IF environ["AWS_LABELER_FRAMEWORKS"] # Unset
                             THEN environ["AWS_LABELER_FRAMEWORKS"]
                             ELSE DEFAULT_SECURITY_HUB_FRAMEWORKS,
                 required |-> FALSE]
          [] dest = "export_all" -> [default |-> Bool(TRUE), required |-> FALSE]
          [] OTHER -> [default |-> None, required |-> FALSE]]

(***************************************************************************)
(* The state of one invocation of get_arguments.                           *)
(***************************************************************************)
VARIABLES
    argv,       \* the command line: each option's flag value, Unset when absent
    env,        \* os.environ: each variable's text, Unset when not set
    pc,         \* where get_arguments is
    required,   \* the options whose parser action has required set
    args,       \* the namespace parse_args fills and get_arguments returns
    outcome,    \* how the invocation ended: a return or a process exit
    trace,      \* the steps of get_arguments evaluated so far, in order
    earlier,    \* the invocations of get_arguments that ended before this one
    given,      \* the argument a validator is called with on its own
    result,     \* what that validator returned
    group,      \* the arguments get_mutually_exclusive_args is called with
    metadata,   \* Metadata._data, the entries of a metadata container
    exporter,   \* an EnergyLabelExporter and the files it has written
    waiting     \* a call of wait_for_findings

\* the objects outside get_arguments
objects == <<group, metadata, exporter, waiting>>

vars == <<argv, env, pc, required, args, outcome, trace, earlier, given, result, objects>>

\* no such object exists
NoGroup == [args |-> <<>>, required |-> FALSE]

NoExporter == [export_data |-> <<>>, prepared |-> 0, written |-> <<>>, calls |-> <<>>]

NoWaiting ==
    [method |-> [raises |-> "", returns |-> None], argument |-> None, log_level |-> "",
     calls |-> <<>>, spinner |-> ""]

NoObjects ==
    /\ group = NoGroup
    /\ metadata = <<>>
    /\ exporter = NoExporter
    /\ waiting = NoWaiting

\* no validator was called on its own
NotCalled == [by |-> "", raised |-> FALSE, exc |-> "", value |-> None, msg |-> NoMsg]

\* the texts the model supplies for a flag
FlagChoices(dest) ==
    CASE dest = "region" -> {Str(EU_WEST_1), Str(BOB)}
      [] dest = "organizations_zone_name" -> {Str(ORG)}
      [] dest = "audit_zone_name" -> {Str(ZONE)}
      [] dest = "single_account_id" -> {Str(ID_1), Str(BAD_ID)}
      [] dest = "frameworks" -> {Str(<<>>), Str(CIS \o <<",">> \o BOB)}
      [] dest = "allowed_account_ids" -> {Str(ID_1 \o <<",">> \o ID_2), Str(BAD_ID)}
      [] dest = "denied_account_ids" -> {Str(ID_2), Str(BAD_ID)}
      [] dest = "allowed_regions" -> {Str(EU_WEST_1)}
      [] dest = "denied_regions" -> {Str(US_EAST_1 \o <<"|">> \o BOB)}
      [] dest = "export_path" -> {Str(S4_URL)}
      [] dest = "export_all" -> {Bool(TRUE)}
      [] dest = "report_closed_findings_days" -> {Str(<<"-", "5">>)}
      [] dest = "validate_metadata_file" ->
            {Str(MISSING_FILE), Str(GARBAGE_FILE), Str(NOHASH_FILE),
             Str(VALID_FILE), Str(INVALID_FILE)}
      [] dest = "version" -> {Bool(TRUE)}

\* the texts the model sets an environment variable to; it leaves the audit
\* zone's and the denied regions' variables unset
EnvChoices(name) ==
    CASE name = "AWS_LABELER_REGION" -> {Str(<<>>), Str(US_EAST_1)}
      [] name = "AWS_LABELER_ORGANIZATIONS_ZONE_NAME" -> {Str(<<>>), Str(ENV_ORG)}
      [] name = "AWS_LABELER_AUDIT_ZONE_NAME" -> {}
      [] name = "AWS_LABELER_SINGLE_ACCOUNT_ID" -> {Str(BAD_ID)}
      [] name = "AWS_LABELER_FRAMEWORKS" -> {Str(PCI_DSS)}
      [] name = "AWS_LABELER_ALLOWED_ACCOUNT_IDS" -> {Str(ID_1)}
      [] name = "AWS_LABELER_DENIED_ACCOUNT_IDS" -> {Str(ID_1 \o <<" ">> \o ID_2)}
      [] name = "AWS_LABELER_ALLOWED_REGIONS" -> {Str(EU_WEST_1 \o <<",">> \o US_EAST_1)}
      [] name = "AWS_LABELER_DENIED_REGIONS" -> {}
      [] name = "AWS_LABELER_EXPORT_PATH" -> {Str(S3_URL)}
      [] name = "AWS_LABELER_EXPORT_ONLY_METRICS" -> {Str(<<"t", "r", "u", "e">>), Str(<<"n", "o">>)}

\* the environment variables, in the order the model sets them
EnvOrder ==
    <<"AWS_LABELER_REGION", "AWS_LABELER_ORGANIZATIONS_ZONE_NAME",
      "AWS_LABELER_AUDIT_ZONE_NAME", "AWS_LABELER_SINGLE_ACCOUNT_ID",
      "AWS_LABELER_FRAMEWORKS", "AWS_LABELER_ALLOWED_ACCOUNT_IDS",
      "AWS_LABELER_DENIED_ACCOUNT_IDS", "AWS_LABELER_ALLOWED_REGIONS",
      "AWS_LABELER_DENIED_REGIONS", "AWS_LABELER_EXPORT_PATH",
      "AWS_LABELER_EXPORT_ONLY_METRICS">>

\* The caller supplies the flags, then the variables, each kind in the order
\* of its list, so that every invocation is set up once: the place in that
\* order of the last one supplied.
LastSupplied ==
    LET places == {i \in 1..Len(Dests) : argv[Dests[i]] # Unset}
                  \cup {Len(Dests) + j : j \in {k \in 1..Len(EnvOrder) : env[EnvOrder[k]] # Unset}}
    IN  IF places = {} THEN 0 ELSE CHOOSE i \in places : \A j \in places : j <= i

\* the flags and variables supplied so far, the region's apart
Supplied ==
    Cardinality({d \in DestSet \ {"region"} : argv[d] # Unset})
    + Cardinality({e \in EnvNames \ {"AWS_LABELER_REGION"} : env[e] # Unset})

NoOutcome == [kind |-> "none", status |-> 0, msg |-> NoMsg]

Init ==
    /\ argv = [d \in DestSet |-> Unset]
    /\ env = [e \in EnvNames |-> Unset]
    /\ pc = "setup"
    /\ required = {}
    /\ args = [d \in DestSet |-> None]
    /\ outcome = NoOutcome
    /\ trace = <<>>
    /\ earlier = <<>>
    /\ given = None
    /\ result = NotCalled
    /\ NoObjects

\* the caller puts one more flag on the command line
SupplyFlag ==
    /\ pc = "setup"
    /\ \E last \in {LastSupplied}, n \in {Supplied} :
        \E i \in (last + 1)..Len(Dests) :
            /\ Dests[i] # "region" => n < MaxSupplied
            /\ \E v \in FlagChoices(Dests[i]) : argv' = [argv EXCEPT ![Dests[i]] = v]
    /\ UNCHANGED <<env, pc, required, args, outcome, trace, earlier, given, result, objects>>

\* the caller sets one more environment variable
SetEnv ==
    /\ pc = "setup"
    /\ \E last \in {LastSupplied}, n \in {Supplied} :
        \E j \in 1..Len(EnvOrder) :
            /\ Len(Dests) + j > last
            /\ EnvOrder[j] # "AWS_LABELER_REGION" => n < MaxSupplied
            /\ \E v \in EnvChoices(EnvOrder[j]) : env' = [env EXCEPT ![EnvOrder[j]] = v]
    /\ UNCHANGED <<argv, pc, required, args, outcome, trace, earlier, given, result, objects>>

(***************************************************************************)
(* How an invocation ends.                                                 *)
(***************************************************************************)
\* the exit status of argparse's ArgumentParser.error
ErrorStatus == 2

\* parser.exit(status, message)
ParserExit(status, msg) == [kind |-> "exit", status |-> status, msg |-> msg]

\* parser.error ending the process the way parser.exit(1, message) would
ParserError_ExitsOne(msg) == ParserExit(1, msg)

\* parser.error(message): the usage, the message, and the error status
ParserError(msg) == ParserExit(ErrorStatus, msg)

\* return args
Returned == [kind |-> "return", status |-> 0, msg |-> NoMsg]

(***************************************************************************)
(* validators.py: the argparse actions, and parse_args.                    *)
(***************************************************************************)
\* OverridingArgument.__call__: the value it stores for its flag
OverridingArgumentValue(values) == IF ~Truthy(values) THEN Bool(TRUE) ELSE values

\* an overriding flag that leaves the required options as they were
RequiredAfterFlags_Kept(req, seen) == req

\* OverridingArgument.__call__: the required options once the flags in seen
\* have been processed
RequiredAfterFlags(req, seen) ==
    IF seen \cap OverridingDests # {} THEN {} ELSE req

\* the flags of the options stored as they are, whatever their types say
FlagResult_Unchecked(dest, raw) ==
    IF dest = "export_all" THEN Ok(Bool(FALSE))
    ELSE IF dest = "version" THEN Ok(OverridingArgumentValue(List(<<>>)))
    ELSE LET r == GetValue(dest, raw.s)
         IN  IF dest \in OverridingDests
             THEN (IF r.ok THEN Ok(OverridingArgumentValue(r.value)) ELSE r)
             ELSE Ok(IF r.ok THEN r.value ELSE raw)

\* what the option's action gets for its flag and stores: [ok, value, msg]
FlagResult(dest, raw) ==
    IF dest = "export_all" THEN Ok(Bool(FALSE))
    ELSE IF dest = "version" THEN Ok(OverridingArgumentValue(List(<<>>)))
    ELSE LET r == GetValue(dest, raw.s)
         IN  IF r.ok /\ dest \in OverridingDests
             THEN Ok(OverridingArgumentValue(r.value))
             ELSE r

\* the namespace entry of an option: what its flag stored or, without the
\* flag, its default, a text default put through the option's type
NamespaceValue(dest, raw, default) ==
    IF raw # Unset THEN FlagResult(dest, raw).value
    ELSE IF default.t = "str" THEN GetValue(dest, default.s).value
    ELSE default

\* one parser built for the first invocation and used again by the later
\* ones, with the required flags the earlier invocation left on it
RequiredAtStart_SharedParser(parser) ==
    IF earlier = <<>> THEN {d \in DestSet : parser[d].required} ELSE required

\* parser = get_parser(): every invocation builds its own parser, whose
\* required flags are the ones get_parser declares
RequiredAtStart(parser) == {d \in DestSet : parser[d].required}

\* The command line of a later invocation keeps the order of its flags: the
\* flag whose error ended the earlier invocation is met first again.
SameOrder(failing, d) ==
    \A e \in failing :
        (earlier # <<>> /\ earlier[Len(earlier)].outcome.msg.option = OptionStrings(e))
            => d = e

\* parser = get_parser(); args = parser.parse_args(arguments).  The flags are
\* processed in command-line order, which the model leaves open: the error
\* of any flag that fails its type can be the first one met.  Then the
\* defaults of the unseen options are converted in declaration order, and
\* last the missing required options are reported.
ParseArgs ==
    /\ pc \in {"setup", "again"}
    /\ trace' = Append(trace, "parse_args")
    /\ \E parser \in {get_parser(env)}, seen \in {{d \in DestSet : argv[d] # Unset}} :
       LET failing == {d \in seen : ~FlagResult(d, argv[d]).ok}
           required0 == RequiredAtStart(parser)
           required1 == RequiredAfterFlags(required0, seen)
           badDefaults ==
               {i \in 1..Len(Dests) :
                   /\ Dests[i] \notin seen
                   /\ Dests[i] \notin required1
                   /\ parser[Dests[i]].default.t = "str"
                   /\ ~GetValue(Dests[i], parser[Dests[i]].default.s).ok}
           firstBad == Dests[CHOOSE i \in badDefaults : \A j \in badDefaults : i <= j]
           missing == {d \in required1 : d \notin seen}
       IN  IF failing # {}
           THEN /\ \E d \in failing :
                     /\ SameOrder(failing, d)
                     /\ outcome' = ParserError(
                            [FlagResult(d, argv[d]).msg EXCEPT !.option = OptionStrings(d)])
                /\ required' \in {required0, required1}
                /\ pc' = "done"
                /\ UNCHANGED args
           ELSE IF badDefaults # {}
           THEN /\ outcome' = ParserError(
                       [GetValue(firstBad, parser[firstBad].default.s).msg
                           EXCEPT !.option = OptionStrings(firstBad)])
                /\ required' = required1
                /\ pc' = "done"
                /\ UNCHANGED args
           ELSE IF missing # {}
           THEN /\ outcome' = ParserError(
                       Msg("", "the following arguments are required: --region/-r", None))
                /\ required' = required1
                /\ pc' = "done"
                /\ UNCHANGED args
           ELSE /\ args' = [d \in DestSet |-> NamespaceValue(d, argv[d], parser[d].default)]
                /\ required' = required1
                /\ pc' = "parsed"
                /\ UNCHANGED outcome
    /\ UNCHANGED <<argv, env, earlier, given, result, objects>>

(***************************************************************************)
(* awsenergylabelercli.py: validate_metadata_file and get_arguments.       *)
(***************************************************************************)
\* validate_metadata_file without the comparison of the two hashes
validate_metadata_file_Uncompared(file_path) ==
    LET file == FileSystem[file_path.s]
    IN  IF ~file.json \/ ~file.mapping
        THEN ParserError(Msg("", "Local file \"{}\" provided is not a valid json file!", file_path))
        ELSE IF file.hash = <<>>
        THEN ParserError(Msg("", "Local file \"{}\" does not have a \"Hash:\" entry!", file_path))
        ELSE ParserExit(0, Msg("", "The file {} seems a valid metadata file.", file_path))

\* validate_metadata_file(file_path, parser): the exit it ends with
validate_metadata_file(file_path) ==
    LET file == FileSystem[file_path.s]
        recorded_hash == file.hash
        calculated_hash == calculate_file_hash(file.data)
    IN  IF ~file.json \/ ~file.mapping
        THEN ParserError(Msg("", "Local file \"{}\" provided is not a valid json file!", file_path))
        ELSE IF recorded_hash = <<>>
        THEN ParserError(Msg("", "Local file \"{}\" does not have a \"Hash:\" entry!", file_path))
        ELSE IF recorded_hash = calculated_hash
        THEN ParserExit(0, Msg("", "The file {} seems a valid metadata file.", file_path))
        ELSE ParserError(Msg("", "The recorded hash {} does not match the calculated one {calculated_hash}!",
                             Str(recorded_hash)))

\* environment_variable_boolean comparing the text whatever its case
environment_variable_boolean_AnyCase(value) ==
    \/ value = Bool(TRUE)
    \/ value = PyInt(1)
    \/ /\ value.t = "str"
       /\ \/ Len(value.s) = 1 /\ value.s[1] \in {"t", "T", "1"}
          \/ /\ Len(value.s) = 4
             /\ value.s[1] \in {"t", "T"} /\ value.s[2] \in {"r", "R"}
             /\ value.s[3] \in {"u", "U"} /\ value.s[4] \in {"e", "E"}

\* environment_variable_boolean knowing the lower-case spellings only
environment_variable_boolean_LowerOnly(value) ==
    \/ value = Bool(TRUE)
    \/ value = PyInt(1)
    \/ /\ value.t = "str"
       /\ value.s \in {<<"t">>, <<"t", "r", "u", "e">>, <<"1">>}

\* environment_variable_boolean(value)
environment_variable_boolean(value) ==
    \/ value = Bool(TRUE)
    \/ value = PyInt(1)
    \/ /\ value.t = "str"
       /\ value.s \in {<<"t">>, <<"T">>, <<"t", "r", "u", "e">>, <<"T", "r", "u", "e">>,
                       <<"1">>, <<"T", "R", "U", "E">>}

\* get_mutually_exclusive_args counting every argument as set
get_mutually_exclusive_args_CountsAll(values, is_required) ==
    LET set_arguments == 1..Len(values)
    IN  IF Cardinality(set_arguments) > 1 THEN "MutuallyExclusiveArguments"
        ELSE IF is_required /\ set_arguments = {} THEN "MissingRequiredArguments"
        ELSE ""

\* get_mutually_exclusive_args that never raises MissingRequiredArguments
get_mutually_exclusive_args_NeverMissing(values, is_required) ==
    LET set_arguments == {i \in 1..Len(values) : Truthy(values[i])}
    IN  IF Cardinality(set_arguments) > 1 THEN "MutuallyExclusiveArguments" ELSE ""

\* get_mutually_exclusive_args that lets two set arguments through
get_mutually_exclusive_args_AllowsTwo(values, is_required) ==
    LET set_arguments == {i \in 1..Len(values) : Truthy(values[i])}
    IN  IF Cardinality(set_arguments) > 2 THEN "MutuallyExclusiveArguments"
        ELSE IF is_required /\ set_arguments = {} THEN "MissingRequiredArguments"
        ELSE ""

\* get_mutually_exclusive_args(*args, required): the exception it raises,
\* "" when it returns
get_mutually_exclusive_args(values, is_required) ==
    LET set_arguments == {i \in 1..Len(values) : Truthy(values[i])}
    IN  IF Cardinality(set_arguments) > 1 THEN "MutuallyExclusiveArguments"
        ELSE IF is_required /\ set_arguments = {} THEN "MissingRequiredArguments"
        ELSE ""

Letters ==
    {"a", "b", "c", "d", "e", "f", "g", "h", "i", "j", "k", "l", "m", "n", "o", "p", "q",
     "r", "s", "t", "u", "v", "w", "x", "y", "z"}

\* urllib.parse.urlparse(location): [scheme, netloc, path]
UrlParse(chars) ==
    LET colons == {i \in 1..Len(chars) : chars[i] = ":"}
        colon == IF colons = {} THEN 0 ELSE CHOOSE i \in colons : \A j \in colons : i <= j
        hasScheme == /\ colon > 1
                     /\ chars[1] \in Letters
                     /\ \A j \in 1..(colon - 1) : chars[j] \in Letters \cup Digits \cup {"+", "-", "."}
        scheme == IF hasScheme THEN SubSeq(chars, 1, colon - 1) ELSE <<>>
        rest == IF hasScheme THEN SubSeq(chars, colon + 1, Len(chars)) ELSE chars
        hasNetloc == Len(rest) >= 2 /\ rest[1] = "/" /\ rest[2] = "/"
        slashes == {i \in 3..Len(rest) : rest[i] = "/"}
        stop == IF slashes = {} THEN Len(rest) + 1
                ELSE CHOOSE i \in slashes : \A j \in slashes : i <= j
    IN  [scheme |-> scheme,
         netloc |-> IF hasNetloc THEN SubSeq(rest, 3, stop - 1) ELSE <<>>,
         path |-> IF hasNetloc THEN SubSeq(rest, stop, Len(rest)) ELSE rest]

\* awsenergylabelerlib's DestinationPath(location).is_valid()
DestinationPathIsValid(chars) ==
    LET parsed_url == UrlParse(chars)
    IN  \/ parsed_url.scheme = <<"s", "3">> /\ Len(parsed_url.netloc) >= 1
        \/ parsed_url.scheme = <<>> /\ parsed_url.netloc = <<>> /\ Len(parsed_url.path) >= 1

\* get_arguments without the test of args.version
VersionCheck_Skipped(a) == NoOutcome

\* if args.version: parser.exit(0, cli_version)
VersionCheck(a) ==
    IF Truthy(a.version)
    THEN ParserExit(0, Msg("", "{cli_version}", None))
    ELSE NoOutcome

\* if args.validate_metadata_file: raise validate_metadata_file(...)
MetadataFileCheck(a) ==
    IF Truthy(a.validate_metadata_file)
    THEN validate_metadata_file(a.validate_metadata_file)
    ELSE NoOutcome

\* if all([args.allowed_account_ids, args.denied_account_ids])
AccountIdsPairCheck(a) ==
    IF Truthy(a.allowed_account_ids) /\ Truthy(a.denied_account_ids)
    THEN ParserError(Msg("",
            "argument --allowed-account-ids/-a: not allowed with argument --denied-account-ids/-d",
            None))
    ELSE NoOutcome

\* get_arguments without the test of the two region lists
RegionsPairCheck_Skipped(a) == NoOutcome

\* if all([args.allowed_regions, args.denied_regions])
RegionsPairCheck(a) ==
    IF Truthy(a.allowed_regions) /\ Truthy(a.denied_regions)
    THEN ParserError(Msg("",
            "argument --allowed-regions/-ar: not allowed with argument --denied-regions/-dr",
            None))
    ELSE NoOutcome

\* os.environ.get: None for a variable that is not set
EnvironGet(environ, name) == IF environ[name] = Unset THEN None ELSE environ[name]

\* the arguments as parse_args left them, whatever the variable holds
SetExportAll_FlagOnly(a, environ) == a

\* export_metrics_set = environment_variable_boolean(os.environ.get(...));
\* if export_metrics_set: args.export_all = False
SetExportAll(a, environ) ==
    IF environment_variable_boolean(EnvironGet(environ, "AWS_LABELER_EXPORT_ONLY_METRICS"))
    THEN [a EXCEPT !.export_all = Bool(FALSE)]
    ELSE a

\* the zone group naming an offending pair instead of its members
ZoneGroupCheck_OffendingPair(a) ==
    LET raised == get_mutually_exclusive_args(
                     <<a.organizations_zone_name, a.audit_zone_name, a.single_account_id>>,
                     TRUE)
    IN  IF raised = "MissingRequiredArguments"
        THEN ParserError(Msg("",
                "one of the arguments --organizations-zone-name/-o --audit-zone-name/-z --single-account-id/-s is required",
                None))
        ELSE IF raised = "MutuallyExclusiveArguments"
        THEN ParserError(Msg("",
                "argument --organizations-zone-name/-o: not allowed with argument --audit-zone-name/-z",
                None))
        ELSE NoOutcome

\* exclusive_args = [organizations_zone_name, audit_zone_name, single_account_id]
ZoneGroupCheck(a) ==
    LET raised == get_mutually_exclusive_args(
                     <<a.organizations_zone_name, a.audit_zone_name, a.single_account_id>>,
                     TRUE)
    IN  IF raised = "MissingRequiredArguments"
        THEN ParserError(Msg("",
                "one of the arguments --organizations-zone-name/-o --audit-zone-name/-z --single-account-id/-s is required",
                None))
        ELSE IF raised = "MutuallyExclusiveArguments"
        THEN ParserError(Msg("",
                "arguments --organizations-zone-name/-o --audit-zone-name/-z --single-account-id/-s are mutually exclusive",
                None))
        ELSE NoOutcome

\* the account group without single_account_id among its members
AccountGroupCheck_WithoutSingle(a) ==
    LET raised == get_mutually_exclusive_args(
                     <<a.allowed_account_ids, a.denied_account_ids>>, FALSE)
    IN  IF raised = "MutuallyExclusiveArguments"
        THEN ParserError(Msg("",
                "arguments --allowed-account-ids/-a --denied-account-ids/-d --single-account-id/-s are mutually exclusive",
                None))
        ELSE NoOutcome

\* the account group reporting its conflict in the pairwise form
AccountGroupCheck_PairwiseText(a) ==
    LET raised == get_mutually_exclusive_args(
                     <<a.allowed_account_ids, a.denied_account_ids, a.single_account_id>>,
                     FALSE)
    IN  IF raised = "MutuallyExclusiveArguments"
        THEN ParserError(Msg("",
                "argument --single-account-id/-s: not allowed with argument --allowed-account-ids/-a",
                None))
        ELSE NoOutcome

\* exclusive_args = [allowed_account_ids, denied_account_ids, single_account_id]
AccountGroupCheck(a) ==
    LET raised == get_mutually_exclusive_args(
                     <<a.allowed_account_ids, a.denied_account_ids, a.single_account_id>>,
                     FALSE)
    IN  IF raised = "MutuallyExclusiveArguments"
        THEN ParserError(Msg("",
                "arguments --allowed-account-ids/-a --denied-account-ids/-d --single-account-id/-s are mutually exclusive",
                None))
        ELSE NoOutcome

\* SecurityHub.validate_frameworks(args.frameworks)
FrameworksCheck(a) ==
    IF InvalidFrameworks(a.frameworks)
    THEN ParserError(Msg("",
            "{} are not valid supported security hub frameworks. Currently supported are {SecurityHub.frameworks}",
            a.frameworks))
    ELSE NoOutcome

\* the loop over the account id lists stopping after the allowed ones
AccountIdsCheck_AllowedOnly(a) ==
    IF InvalidAccountList(a.allowed_account_ids)
    THEN ParserError(Msg("", "{} contains invalid account ids.", a.allowed_account_ids))
    ELSE NoOutcome

\* for argument in ['allowed_account_ids', 'denied_account_ids']
AccountIdsCheck(a) ==
    IF InvalidAccountList(a.allowed_account_ids)
    THEN ParserError(Msg("", "{} contains invalid account ids.", a.allowed_account_ids))
    ELSE IF InvalidAccountList(a.denied_account_ids)
    THEN ParserError(Msg("", "{} contains invalid account ids.", a.denied_account_ids))
    ELSE NoOutcome

\* for argument in ['allowed_regions', 'denied_regions']
RegionsCheck(a) ==
    IF InvalidRegionList(a.allowed_regions)
    THEN ParserError(Msg("", "{} contains invalid regions.", a.allowed_regions))
    ELSE IF InvalidRegionList(a.denied_regions)
    THEN ParserError(Msg("", "{} contains invalid regions.", a.denied_regions))
    ELSE NoOutcome

\* if args.export_path and not DestinationPath(args.export_path).is_valid()
ExportPathCheck(a) ==
    IF Truthy(a.export_path) /\ ~DestinationPathIsValid(a.export_path.s)
    THEN ParserError(Msg("",
            "{} is an invalid export location. Example --export-path /a/directory or --export-path s3://mybucket location",
            a.export_path))
    ELSE NoOutcome

\* the steps with the zone-scope group and the account-filter group ahead
\* of the allowed/denied pairs
Steps_GroupsFirst(a) ==
    <<[step |-> "version", result |-> VersionCheck(a)],
      [step |-> "validate_metadata_file", result |-> MetadataFileCheck(a)],
      [step |-> "export_all", result |-> NoOutcome],
      [step |-> "zone_group", result |-> ZoneGroupCheck(a)],
      [step |-> "account_group", result |-> AccountGroupCheck(a)],
      [step |-> "account_ids_pair", result |-> AccountIdsPairCheck(a)],
      [step |-> "regions_pair", result |-> RegionsPairCheck(a)],
      [step |-> "frameworks", result |-> FrameworksCheck(a)],
      [step |-> "account_ids", result |-> AccountIdsCheck(a)],
      [step |-> "regions", result |-> RegionsCheck(a)],
      [step |-> "export_path", result |-> ExportPathCheck(a)],
      [step |-> "return", result |-> Returned]>>

\* The statements of get_arguments after parse_args, in the order of the
\* code: each step and the exit it ends the process with, NoOutcome when
\* execution goes on to the next step.
Steps(a) ==
    <<[step |-> "version", result |-> VersionCheck(a)],
      [step |-> "validate_metadata_file", result |-> MetadataFileCheck(a)],
      [step |-> "account_ids_pair", result |-> AccountIdsPairCheck(a)],
      [step |-> "regions_pair", result |-> RegionsPairCheck(a)],
      [step |-> "export_all", result |-> NoOutcome],
      [step |-> "zone_group", result |-> ZoneGroupCheck(a)],
      [step |-> "account_group", result |-> AccountGroupCheck(a)],
      [step |-> "frameworks", result |-> FrameworksCheck(a)],
      [step |-> "account_ids", result |-> AccountIdsCheck(a)],
      [step |-> "regions", result |-> RegionsCheck(a)],
      [step |-> "export_path", result |-> ExportPathCheck(a)],
      [step |-> "return", result |-> Returned]>>

\* the names of the first n steps
StepNames(steps, n) == [i \in 1..n |-> steps[i].step]

\* get_arguments running every check and reporting the last one that failed
Validate_LastFailure ==
    /\ pc = "parsed"
    /\ \E steps \in {Steps(args)} :
        LET ending == {i \in 1..Len(steps) : steps[i].result # NoOutcome}
            failing == ending \ {Len(steps)}
            last == IF failing = {} THEN Len(steps)
                    ELSE CHOOSE i \in failing : \A j \in failing : j <= i
        IN  /\ outcome' = steps[last].result
            /\ trace' = trace \o StepNames(steps, last)
            /\ args' = IF \E i \in 1..last : steps[i].step = "export_all"
                       THEN SetExportAll(args, env)
                       ELSE args
    /\ pc' = "done"
    /\ UNCHANGED <<argv, env, required, earlier, given, result, objects>>

\* get_arguments after parse_args: the steps run in order up to the first
\* one that ends the invocation
Validate ==
    /\ pc = "parsed"
    /\ \E steps \in {Steps(args)} :
        LET ending == {i \in 1..Len(steps) : steps[i].result # NoOutcome}
            last == CHOOSE i \in ending : \A j \in ending : i <= j
        IN  /\ outcome' = steps[last].result
            /\ trace' = trace \o StepNames(steps, last)
            /\ args' = IF \E i \in 1..last : steps[i].step = "export_all"
                       THEN SetExportAll(args, env)
                       ELSE args
    /\ pc' = "done"
    /\ UNCHANGED <<argv, env, required, earlier, given, result, objects>>

Next ==
    \/ SupplyFlag
    \/ SetEnv
    \/ ParseArgs
    \/ Validate

Spec == Init /\ [][Next]_vars

(***************************************************************************)
(* get_arguments called again in the same process.                         *)
(***************************************************************************)
\* the most flags and variables of an invocation that is followed by another
MaxSuppliedAgain == 2

\* the command lines of the later invocation: the same one, and the same one
\* less its overriding flags
LaterCommandLines ==
    {argv, [d \in DestSet |-> IF d \in OverridingDests THEN Unset ELSE argv[d]]}

\* The caller, still running after a return or having caught SystemExit,
\* calls get_arguments once more; the environment is as it was.
GetArgumentsAgain ==
    /\ pc = "done"
    /\ earlier = <<>>
    /\ Supplied <= MaxSuppliedAgain
    /\ earlier' = Append(earlier, [argv |-> argv, outcome |-> outcome, args |-> args])
    /\ argv' \in LaterCommandLines
    /\ pc' = "again"
    /\ args' = [d \in DestSet |-> None]
    /\ outcome' = NoOutcome
    /\ trace' = <<>>
    /\ UNCHANGED <<env, required, given, result, objects>>

NextAgain ==
    \/ Next
    \/ GetArgumentsAgain

SpecAgain == Init /\ [][NextAgain]_vars

(***************************************************************************)
(* validators.py: environment_variable_boolean and                         *)
(* character_delimited_list_variable called on their own.                  *)
(***************************************************************************)
\* the longest text given to environment_variable_boolean
MaxSpellingLen == 4

\* the longest text given to character_delimited_list_variable
MaxTextLen == 5

\* the letters of the spellings of true, in both cases
SpellingLetters == {"t", "T", "r", "R", "u", "U", "e", "E", "1"}

\* two letters, and a comma, a pipe, a space and a tab to separate them
TextLetters == {"a", "b", ",", "|", " ", "\t"}

\* a text of at most n of the letters
IsTextOver(v, letters, n) ==
    \E k \in 0..n : \E chars \in [1..k -> letters] : v = Str(chars)

\* values that are no text
OtherValues ==
    {None, Bool(TRUE), Bool(FALSE), PyInt(-2), PyInt(0), PyInt(1), PyInt(2),
     List(<<>>), List(<<<<"t">>>>), List(<<<<"a">>, <<"b">>>>)}

\* the longest text given to positive_integer
MaxNumberLen == 3

\* digits, the signs and a letter
NumberLetters == {"0", "1", "4", "-", "+", "a"}

InitValidators ==
    /\ argv = [d \in DestSet |-> Unset]
    /\ env = [e \in EnvNames |-> Unset]
    /\ pc = "validator"
    /\ required = {}
    /\ args = [d \in DestSet |-> None]
    /\ outcome = NoOutcome
    /\ trace = <<>>
    /\ earlier = <<>>
    /\ \/ given \in OtherValues
       \/ IsTextOver(given, SpellingLetters, MaxSpellingLen)
       \/ IsTextOver(given, TextLetters, MaxTextLen)
       \/ IsTextOver(given, NumberLetters, MaxNumberLen)
    /\ result = NotCalled
    /\ NoObjects

\* environment_variable_boolean(value); the membership test compares values
\* of built-in types and raises nothing
CallBoolean ==
    /\ pc = "validator"
    /\ result' = [by |-> "environment_variable_boolean", raised |-> FALSE, exc |-> "",
                  value |-> Bool(environment_variable_boolean(given)), msg |-> NoMsg]
    /\ pc' = "returned"
    /\ UNCHANGED <<argv, env, required, args, outcome, trace, earlier, given, objects>>

\* character_delimited_list_variable(value): str(value) is split
CallDelimited ==
    /\ pc = "validator"
    /\ result' = [by |-> "character_delimited_list_variable", raised |-> FALSE, exc |-> "",
                  value |-> character_delimited_list_variable(PyStr(given)), msg |-> NoMsg]
    /\ pc' = "returned"
    /\ UNCHANGED <<argv, env, required, args, outcome, trace, earlier, given, objects>>

\* positive_integer(value); int(value) of a list is no case of the model
CallPositiveInteger ==
    /\ pc = "validator"
    /\ given.t \in {"none", "str", "int", "bool"}
    /\ \E r \in {positive_integer(given)} :
        result' = [by |-> "positive_integer", raised |-> ~r.ok,
                   exc |-> IF r.ok THEN "" ELSE "ArgumentTypeError",
                   value |-> r.value, msg |-> r.msg]
    /\ pc' = "returned"
    /\ UNCHANGED <<argv, env, required, args, outcome, trace, earlier, given, objects>>

(***************************************************************************)
(* helpers.py: DestinationPath and DataExporter.export.                    *)
(***************************************************************************)
\* all(conditions) of a list of booleans
All(conditions) == \A i \in 1..Len(conditions) : conditions[i]

\* a or b of two lists: a unless a is empty
ListOr(a, b) == IF a # <<>> THEN a ELSE b

\* self._s3_conditions
s3_conditions(location) ==
    LET parsed_url == UrlParse(location)
    IN  <<parsed_url.scheme = <<"s", "3">>, Len(parsed_url.path) >= 1>>

\* self._local_conditions
local_conditions(location) ==
    LET parsed_url == UrlParse(location)
    IN  <<parsed_url.scheme = <<>>, parsed_url.netloc = <<>>, Len(parsed_url.path) >= 1>>

\* DestinationPath(location).is_valid()
is_valid(location) == All(ListOr(s3_conditions(location), local_conditions(location)))

\* DestinationPath(location).type: 's3', 'local', or "" for InvalidPath
destination_type(location) ==
    IF All(s3_conditions(location)) THEN "s3"
    ELSE IF All(local_conditions(location)) THEN "local"
    ELSE ""

\* DataExporter.export(path): the export method it takes, "" for InvalidPath
export(path) ==
    IF ~is_valid(path) THEN ""
    ELSE IF destination_type(path) = "s3" THEN "_export_to_s3"
    ELSE IF destination_type(path) = "local" THEN "_export_to_fs"
    ELSE ""

\* the longest location
MaxLocationLen == 6

\* the letters of s3://a/a, of a/a and of a:a
LocationLetters == {"s", "3", ":", "/", "a"}

InitDestination ==
    /\ argv = [d \in DestSet |-> Unset]
    /\ env = [e \in EnvNames |-> Unset]
    /\ pc = "validator"
    /\ required = {}
    /\ args = [d \in DestSet |-> None]
    /\ outcome = NoOutcome
    /\ trace = <<>>
    /\ earlier = <<>>
    /\ IsTextOver(given, LocationLetters, MaxLocationLen)
    /\ result = NotCalled
    /\ NoObjects

\* DestinationPath(location).is_valid()
CallIsValid ==
    /\ pc = "validator"
    /\ result' = [by |-> "is_valid", raised |-> FALSE, exc |-> "",
                  value |-> Bool(is_valid(given.s)), msg |-> NoMsg]
    /\ pc' = "returned"
    /\ UNCHANGED <<argv, env, required, args, outcome, trace, earlier, given, objects>>

\* DestinationPath(location).type
CallType ==
    /\ pc = "validator"
    /\ \E kind \in {destination_type(given.s)} :
        result' = [by |-> "type", raised |-> kind = "",
                   exc |-> IF kind = "" THEN "InvalidPath" ELSE "",
                   value |-> IF kind = "" THEN None ELSE Str(<<kind>>), msg |-> NoMsg]
    /\ pc' = "returned"
    /\ UNCHANGED <<argv, env, required, args, outcome, trace, earlier, given, objects>>

\* DataExporter.export(path), up to its choice of the export method
CallExport ==
    /\ pc = "validator"
    /\ \E method \in {export(given.s)} :
        result' = [by |-> "export", raised |-> method = "",
                   exc |-> IF method = "" THEN "InvalidPath" ELSE "",
                   value |-> IF method = "" THEN None ELSE Str(<<method>>), msg |-> NoMsg]
    /\ pc' = "returned"
    /\ UNCHANGED <<argv, env, required, args, outcome, trace, earlier, given, objects>>

NextDestination ==
    \/ CallIsValid
    \/ CallType
    \/ CallExport

SpecDestination == InitDestination /\ [][NextDestination]_vars

(***************************************************************************)
(* entities.py: MetadataEntry and Metadata.                                *)
(***************************************************************************)
\* an object of a class, with the attributes of a MetadataEntry
Object(class, title, value, is_report_entry) ==
    [class |-> class, title |-> title, value |-> value,
     is_report_entry |-> is_report_entry]

\* MetadataEntry(title, value, is_report_entry)
MetadataEntry(title, value, is_report_entry) ==
    Object("MetadataEntry", title, value, is_report_entry)

\* Metadata.data reading the first entry of a title instead of the last
data_FirstWins(entries) ==
    LET titles == {entries[i].title : i \in 1..Len(entries)}
    IN  [t \in titles |->
            entries[CHOOSE i \in 1..Len(entries) :
                        /\ entries[i].title = t
                        /\ \A j \in 1..(i - 1) : entries[j].title # t].value]

\* Metadata.data: {entry.title: entry.value for entry in self._data}
RECURSIVE data(_)
data(entries) ==
    IF entries = <<>> THEN <<>>
    ELSE LET entry == entries[Len(entries)]
             before == data(SubSeq(entries, 1, Len(entries) - 1))
         IN  [t \in DOMAIN before \cup {entry.title} |->
                 IF t = entry.title THEN entry.value ELSE before[t]]

\* Metadata.report_table:
\* [[entry.title, entry.value] for entry in self._data if entry.is_report_entry]
RECURSIVE report_table(_)
report_table(entries) ==
    IF entries = <<>> THEN <<>>
    ELSE (IF Head(entries).is_report_entry
          THEN <<(<<Head(entries).title, Head(entries).value>>)>> ELSE <<>>)
         \o report_table(Tail(entries))

\* Metadata.add_entry putting the entry in front
add_entry_InFront(entries, entry) ==
    IF entry.class # "MetadataEntry"
    THEN [raised |-> "ValueError", entries |-> entries]
    ELSE [raised |-> "", entries |-> <<entry>> \o entries]

\* Metadata.add_entry(entry): the exception raised, and self._data after it
add_entry(entries, entry) ==
    IF entry.class # "MetadataEntry"
    THEN [raised |-> "ValueError", entries |-> entries]
    ELSE [raised |-> "", entries |-> Append(entries, entry)]

\* the most entries of a container
MaxEntries == 3

Titles == {<<"a">>, <<"b">>}

Values == {<<"1">>, <<"2">>}

\* the objects add_entry is called with: entries, and objects of other
\* classes, one of them with the attributes of an entry
Entries ==
    {MetadataEntry(t, v, r) : t \in Titles, v \in Values, r \in BOOLEAN}
    \cup {Object("NoneType", <<>>, <<>>, FALSE), Object("str", <<>>, <<"a">>, FALSE),
          Object("SimpleNamespace", <<"a">>, <<"1">>, TRUE)}

\* Metadata()
InitMetadata ==
    /\ argv = [d \in DestSet |-> Unset]
    /\ env = [e \in EnvNames |-> Unset]
    /\ pc = "metadata"
    /\ required = {}
    /\ args = [d \in DestSet |-> None]
    /\ outcome = NoOutcome
    /\ trace = <<>>
    /\ earlier = <<>>
    /\ given = None
    /\ result = NotCalled
    /\ group = NoGroup
    /\ metadata = <<>>
    /\ exporter = NoExporter
    /\ waiting = NoWaiting

\* metadata.add_entry(entry)
AddEntry ==
    /\ pc = "metadata"
    /\ Len(metadata) < MaxEntries
    /\ \E entry \in Entries :
        LET r == add_entry(metadata, entry)
        IN  /\ given' = entry
            /\ metadata' = r.entries
            /\ result' = [by |-> "add_entry", raised |-> r.raised # "", exc |-> r.raised,
                          value |-> None, msg |-> NoMsg]
    /\ UNCHANGED <<argv, env, pc, required, args, outcome, trace, earlier, group,
                   exporter, waiting>>

NextMetadata == AddEntry

SpecMetadata == InitMetadata /\ [][NextMetadata]_vars

(***************************************************************************)
(* awsenergylabelreporter.py: EnergyLabelFileData and EnergyLabelExporter. *)
(***************************************************************************)
\* FILENAMES, in the order _prepare_export_data lists the files
FILENAMES ==
    <<"energylabel-of-landingzone.json", "securityhub-findings.json", "labeled-accounts.json">>

\* EnergyLabelFileData.export_as_json_to_fs(directory): the file it writes
export_as_json_to_fs(filename, directory) ==
    [filename |-> filename, to |-> "fs", location |-> directory]

\* EnergyLabelFileData.export_as_json_to_s3(s3_url): the file it uploads
export_as_json_to_s3(filename, s3_url) ==
    [filename |-> filename, to |-> "s3", location |-> s3_url]

\* EnergyLabelExporter._prepare_export_data: self._export_data after it, and
\* how often the labeler has been read; None is the empty tuple here
prepare_export_data(e) ==
    IF e.export_data = <<>>
    THEN [e EXCEPT !.export_data = FILENAMES, !.prepared = @ + 1]
    ELSE e

\* the most calls of the export methods on one exporter
MaxExports == 4

OUT_DIR == <<"o", "u", "t">>

\* a directory and an S3 location
ExportLocations == {OUT_DIR, S3_URL}

\* EnergyLabelExporter(energy_labeler)
InitExporter ==
    /\ argv = [d \in DestSet |-> Unset]
    /\ env = [e \in EnvNames |-> Unset]
    /\ pc = "exporter"
    /\ required = {}
    /\ args = [d \in DestSet |-> None]
    /\ outcome = NoOutcome
    /\ trace = <<>>
    /\ earlier = <<>>
    /\ given = None
    /\ result = NotCalled
    /\ NoObjects

\* exporter.export_as_json_to_fs(directory)
ExportAsJsonToFs ==
    /\ pc = "exporter"
    /\ Len(exporter.calls) < MaxExports
    /\ \E directory \in ExportLocations :
        LET e == prepare_export_data(exporter)
        IN  /\ given' = Str(directory)
            /\ exporter' = [e EXCEPT
                    !.calls = Append(@, "export_as_json_to_fs"),
                    !.written = @ \o
                        [i \in 1..Len(e.export_data) |->
                            export_as_json_to_fs(e.export_data[i], directory)]]
    /\ UNCHANGED <<argv, env, pc, required, args, outcome, trace, earlier, result, group,
                   metadata, waiting>>

\* exporter.export_as_json_to_s3(s3_url): for f in export_data:
\* f.export_as_json_to_fs(s3_url)
ExportAsJsonToS3 ==
    /\ pc = "exporter"
    /\ Len(exporter.calls) < MaxExports
    /\ \E s3_url \in ExportLocations :
        LET e == prepare_export_data(exporter)
        IN  /\ given' = Str(s3_url)
            /\ exporter' = [e EXCEPT
                    !.calls = Append(@, "export_as_json_to_s3"),
                    !.written = @ \o
                        [i \in 1..Len(e.export_data) |->
                            export_as_json_to_fs(e.export_data[i], s3_url)]]
    /\ UNCHANGED <<argv, env, pc, required, args, outcome, trace, earlier, result, group,
                   metadata, waiting>>

NextExporter ==
    \/ ExportAsJsonToFs
    \/ ExportAsJsonToS3

SpecExporter == InitExporter /\ [][NextExporter]_vars

(***************************************************************************)
(* awsenergylabelercli.py: wait_for_findings.                              *)
(***************************************************************************)
\* the classes 'except Exception' catches, among those the callables raise
ExceptionClasses == {"ValueError", "ClientError"}

\* the classes outside Exception
BaseExceptionClasses == {"KeyboardInterrupt"}

\* raise SystemExit(status)
SystemExit(status) == [kind |-> "exit", status |-> status, msg |-> NoMsg]

\* method_name(method_argument) if method_argument else method_name(): the
\* arguments of the call
MethodCall(method_argument) ==
    IF Truthy(method_argument) THEN <<method_argument>> ELSE <<>>

\* wait_for_findings calling the method at other log levels than debug only
wait_for_findings_NotOnDebug(method_name, method_argument, log_level) ==
    LET called == log_level # "debug"
        calls == IF called THEN <<MethodCall(method_argument)>> ELSE <<>>
        spinner == IF log_level = "debug" THEN ""
                   ELSE IF method_name.raises = "" THEN "ok" ELSE "stopped"
    IN  IF called /\ method_name.raises \in ExceptionClasses
        THEN [calls |-> calls, spinner |-> spinner, end |-> "exit", raised |-> "",
              value |-> None]
        ELSE IF called /\ method_name.raises # ""
        THEN [calls |-> calls, spinner |-> spinner, end |-> "raise",
              raised |-> method_name.raises, value |-> None]
        ELSE [calls |-> calls, spinner |-> spinner, end |-> "return", raised |-> "",
              value |-> method_name.returns]

\* wait_for_findings(method_name, method_argument, log_level): the calls of
\* the method, the spinner, and how it ends: raise SystemExit(1) for what
\* 'except Exception' catches, the method's exception for what it does not
\* catch, return findings otherwise
wait_for_findings(method_name, method_argument, log_level) ==
    LET calls == <<MethodCall(method_argument)>>
        spinner == IF log_level = "debug" THEN ""
                   ELSE IF method_name.raises = "" THEN "ok" ELSE "stopped"
    IN  IF method_name.raises \in ExceptionClasses
        THEN [calls |-> calls, spinner |-> spinner, end |-> "exit", raised |-> "",
              value |-> None]
        ELSE IF method_name.raises # ""
        THEN [calls |-> calls, spinner |-> spinner, end |-> "raise",
              raised |-> method_name.raises, value |-> None]
        ELSE [calls |-> calls, spinner |-> spinner, end |-> "return", raised |-> "",
              value |-> method_name.returns]

\* how the callables behave: they return findings, or raise
Methods ==
    {[raises |-> "", returns |-> f] : f \in {None, List(<<>>), List(<<ID_1, ID_2>>)}}
    \cup {[raises |-> e, returns |-> None] : e \in ExceptionClasses \cup BaseExceptionClasses}

\* no argument, an empty query filter, a query filter, a labeler
MethodArguments == {None, List(<<>>), List(<<ID_1>>), Str(ORG)}

LogLevels == {"debug", "info", "warning", "DEBUG"}

InitWaiting ==
    /\ argv = [d \in DestSet |-> Unset]
    /\ env = [e \in EnvNames |-> Unset]
    /\ pc = "waiting"
    /\ required = {}
    /\ args = [d \in DestSet |-> None]
    /\ outcome = NoOutcome
    /\ trace = <<>>
    /\ earlier = <<>>
    /\ given = None
    /\ result = NotCalled
    /\ group = NoGroup
    /\ metadata = <<>>
    /\ exporter = NoExporter
    /\ \E method \in Methods, argument \in MethodArguments, level \in LogLevels :
        waiting = [method |-> method, argument |-> argument, log_level |-> level,
                   calls |-> <<>>, spinner |-> ""]

\* findings = wait_for_findings(method_name, method_argument, log_level)
WaitForFindings ==
    /\ pc = "waiting"
    /\ \E r \in {wait_for_findings(waiting.method, waiting.argument, waiting.log_level)} :
        /\ waiting' = [waiting EXCEPT !.calls = r.calls, !.spinner = r.spinner]
        /\ outcome' = IF r.end = "exit" THEN SystemExit(1) ELSE NoOutcome
        /\ result' = [by |-> "wait_for_findings", raised |-> r.end = "raise",
                      exc |-> r.raised, value |-> r.value, msg |-> NoMsg]
        /\ pc' = IF r.end = "exit" THEN "exited" ELSE "returned"
    /\ UNCHANGED <<argv, env, required, args, trace, earlier, given, group, metadata,
                   exporter>>

NextWaiting == WaitForFindings

SpecWaiting == InitWaiting /\ [][NextWaiting]_vars

\* the most arguments of a group
MaxGroup == 3

\* the values of a group's arguments: absent, empty and set ones
GroupValues ==
    {None, Str(<<>>), Str(ENV_ORG), List(<<>>), List(<<ID_1>>), Bool(FALSE), PyInt(0),
     PyInt(1)}

InitGroup ==
    /\ argv = [d \in DestSet |-> Unset]
    /\ env = [e \in EnvNames |-> Unset]
    /\ pc = "validator"
    /\ required = {}
    /\ args = [d \in DestSet |-> None]
    /\ outcome = NoOutcome
    /\ trace = <<>>
    /\ earlier = <<>>
    /\ given = None
    /\ result = NotCalled
    /\ \E k \in 0..MaxGroup : \E values \in [1..k -> GroupValues] :
        \E is_required \in BOOLEAN :
            group = [args |-> values, required |-> is_required]
    /\ metadata = <<>>
    /\ exporter = NoExporter
    /\ waiting = NoWaiting

\* get_mutually_exclusive_args(*args, required=...): raises, or returns args
CallMutuallyExclusive ==
    /\ pc = "validator"
    /\ \E e \in {get_mutually_exclusive_args(group.args, group.required)} :
        result' = [by |-> "get_mutually_exclusive_args", raised |-> e # "", exc |-> e,
                   value |-> IF e = "" THEN group.args ELSE None, msg |-> NoMsg]
    /\ pc' = "returned"
    /\ UNCHANGED <<argv, env, required, args, outcome, trace, earlier, given, objects>>

NextGroup == CallMutuallyExclusive

SpecGroup == InitGroup /\ [][NextGroup]_vars

NextValidators ==
    \/ CallBoolean
    \/ CallDelimited
    \/ CallPositiveInteger

SpecValidators == InitValidators /\ [][NextValidators]_vars

(***************************************************************************)
(* What an invocation was given, read off the command line and the         *)
(* environment alone.                                                      *)
(***************************************************************************)
\* the environment variable an option falls back to, "" for none
FallbackOf(dest) ==
    IF dest = "frameworks" THEN "AWS_LABELER_FRAMEWORKS" ELSE EnvVarOf(dest)

\* the default an option has when no environment variable is set
StaticDefault(dest) ==
    CASE dest = "frameworks" -> DEFAULT_SECURITY_HUB_FRAMEWORKS
      [] dest = "export_all" -> Bool(TRUE)
      [] OTHER -> None

\* the flag's value if the flag is supplied, otherwise the variable's value
\* if it is set, otherwise the static default
RawValue(dest) ==
    IF argv[dest] # Unset THEN argv[dest]
    ELSE IF FallbackOf(dest) # "" /\ env[FallbackOf(dest)] # Unset THEN env[FallbackOf(dest)]
    ELSE StaticDefault(dest)

\* the options whose type can reject a text: character_delimited_list_variable
\* and the plain text accept every text
RejectingDests ==
    {d \in DestSet \ {"export_all", "version"} :
        TypeOf(d) \notin {"character_delimited_list_variable", "none"}}

\* the raw value of an option fails the option's coercer
FailsCoercion(dest) ==
    /\ dest \in RejectingDests
    /\ RawValue(dest).t = "str"
    /\ ~GetValue(dest, RawValue(dest).s).ok

\* the raw value of an option after the option's coercer
Resolved(dest) ==
    IF dest \in {"export_all", "version"} \/ RawValue(dest).t # "str" THEN RawValue(dest)
    ELSE GetValue(dest, RawValue(dest).s).value

\* the option resolves, from flag or environment variable, to a non-empty value
IsSet(dest) ==
    IF FailsCoercion(dest) THEN Truthy(RawValue(dest)) ELSE Truthy(Resolved(dest))

HowManySet(dests) == Cardinality({d \in dests : IsSet(d)})

ZoneScope == {"organizations_zone_name", "audit_zone_name", "single_account_id"}

AccountFilter == {"allowed_account_ids", "denied_account_ids", "single_account_id"}

RegionFilter == {"allowed_regions", "denied_regions"}

Done == pc = "done"

NoOverridingFlag == argv["validate_metadata_file"] = Unset /\ argv["version"] = Unset

ValidRegion == RawValue("region").t = "str" /\ is_valid_region(RawValue("region").s)

NoCoercionFailure == \A d \in DestSet : ~FailsCoercion(d)

BothAccountIdLists == IsSet("allowed_account_ids") /\ IsSet("denied_account_ids")

BothRegionLists == IsSet("allowed_regions") /\ IsSet("denied_regions")

\* the invocation ended in parser.error with exactly this message
FailedWith(text) ==
    /\ outcome.kind = "exit"
    /\ outcome.status # 0
    /\ outcome.msg = Msg("", text, None)

ZoneRequiredText ==
    "one of the arguments --organizations-zone-name/-o --audit-zone-name/-z --single-account-id/-s is required"

ZoneExclusiveText ==
    "arguments --organizations-zone-name/-o --audit-zone-name/-z --single-account-id/-s are mutually exclusive"

NonEmptyIn(a, dests) == Cardinality({d \in dests : Truthy(a[d])})

\* C3: a returned configuration has exactly one zone-scope option, at most
\* one account-filter option and at most one region-filter option non-empty
C3_GroupInvariants ==
    (Done /\ outcome.kind = "return")
        => /\ NonEmptyIn(args, ZoneScope) = 1
           /\ NonEmptyIn(args, AccountFilter) <= 1
           /\ NonEmptyIn(args, RegionFilter) <= 1

\* a configuration returned with an organizations zone, a list of allowed
\* account ids and a list of allowed regions
C3_Witness ==
    /\ Done /\ outcome.kind = "return"
    /\ Truthy(args["organizations_zone_name"])
    /\ Truthy(args["allowed_account_ids"])
    /\ Truthy(args["allowed_regions"])

(***************************************************************************)
(* The stages of validation, and which of them an invocation violates,     *)
(* read off the command line and the environment alone.                    *)
(***************************************************************************)
Violates(stage) ==
    CASE stage = "parser" -> ~NoCoercionFailure \/ ~IsSet("region")
      [] stage = "account_ids_pair" -> BothAccountIdLists
      [] stage = "regions_pair" -> BothRegionLists
      [] stage = "zone_group" -> HowManySet(ZoneScope) # 1
      [] stage = "account_group" -> HowManySet(AccountFilter) > 1
      [] stage = "region_group" -> HowManySet(RegionFilter) > 1
      [] stage = "frameworks" -> InvalidFrameworks(Resolved("frameworks"))
      [] stage = "account_ids" ->
            \/ InvalidAccountList(Resolved("allowed_account_ids"))
            \/ InvalidAccountList(Resolved("denied_account_ids"))
      [] stage = "regions" ->
            \/ InvalidRegionList(Resolved("allowed_regions"))
            \/ InvalidRegionList(Resolved("denied_regions"))
      [] stage = "export_path" ->
            /\ IsSet("export_path")
            /\ ~DestinationPathIsValid(RawValue("export_path").s)

\* the places in an order of the stages the invocation violates
ViolatedIn(order) == {i \in 1..Len(order) : Violates(order[i])}

\* the earliest stage of an order the invocation violates
EarliestViolated(order) ==
    LET violated == ViolatedIn(order)
    IN  order[CHOOSE i \in violated : \A j \in violated : i <= j]

\* the step of get_arguments that ended the invocation
EndingStep == IF trace[Len(trace)] = "parse_args" THEN "parser" ELSE trace[Len(trace)]

\* the order of the stages as the claim gives it
ClaimedOrder ==
    <<"parser", "zone_group", "account_group", "region_group", "frameworks",
      "account_ids", "regions", "export_path">>

\* the stage of the claimed order a step of the code belongs to
ClaimedStageOf(step) ==
    CASE step = "account_ids_pair" -> "account_group"
      [] step = "regions_pair" -> "region_group"
      [] OTHER -> step

\* the order of the stages in get_arguments
CodeOrder ==
    <<"parser", "account_ids_pair", "regions_pair", "zone_group", "account_group",
      "frameworks", "account_ids", "regions", "export_path">>

AccountIdsPairText ==
    "argument --allowed-account-ids/-a: not allowed with argument --denied-account-ids/-d"

RegionsPairText ==
    "argument --allowed-regions/-ar: not allowed with argument --denied-regions/-dr"

GroupAndValidatorSteps ==
    {"account_ids_pair", "regions_pair", "zone_group", "account_group",
     "frameworks", "account_ids", "regions", "export_path"}

GroupAndValidatorTexts ==
    {AccountIdsPairText, RegionsPairText, ZoneRequiredText, ZoneExclusiveText,
     "arguments --allowed-account-ids/-a --denied-account-ids/-d --single-account-id/-s are mutually exclusive",
     "{} are not valid supported security hub frameworks. Currently supported are {SecurityHub.frameworks}",
     "{} contains invalid account ids.",
     "{} contains invalid regions.",
     "{} is an invalid export location. Example --export-path /a/directory or --export-path s3://mybucket location"}

\* C6: with an overriding option present after parsing, the invocation ends
\* at the version or the metadata-file step, no group check and no validator
\* is evaluated, and none of their messages is produced
C6_OverridingEndsFirst ==
    (Done /\ ~NoOverridingFlag /\ NoCoercionFailure)
        => /\ outcome.kind = "exit"
           /\ EndingStep \in {"version", "validate_metadata_file"}
           /\ \A i \in 1..Len(trace) : trace[i] \notin GroupAndValidatorSteps
           /\ outcome.msg.text \notin GroupAndValidatorTexts

\* a metadata file was validated in an invocation that has a region, no
\* zone-scope option and a list of frameworks the library does not support
C6_Witness ==
    /\ Done /\ argv["validate_metadata_file"] # Unset /\ argv["version"] = Unset
    /\ NoCoercionFailure /\ ValidRegion
    /\ HowManySet(ZoneScope) = 0
    /\ Violates("frameworks")
    /\ EndingStep = "validate_metadata_file"

(***************************************************************************)
(* C7.  As stated: when --validate-metadata-file with an existing file     *)
(* and --version are both given, the metadata file is validated and the    *)
(* version is not printed.  get_arguments tests args.version first.        *)
(***************************************************************************)
C7_AsStated ==
    (/\ Done /\ NoCoercionFailure
     /\ argv["validate_metadata_file"] # Unset /\ argv["version"] # Unset)
        => /\ EndingStep = "validate_metadata_file"
           /\ outcome.msg.text # "{cli_version}"

(***************************************************************************)
(* C8.  As stated: given --validate-metadata-file with an existing JSON    *)
(* file that records a hash, the process ends with exit code 0 if the      *)
(* recorded hash equals the recomputed one, and with exit code 1 and a     *)
(* message containing 'does not match the calculated one' if it differs.   *)
(***************************************************************************)
\* --validate-metadata-file names an existing JSON file with a "Hash:" entry
\* and is the only overriding option
MetadataFileGiven ==
    /\ argv["validate_metadata_file"] # Unset /\ argv["version"] = Unset
    /\ NoCoercionFailure
    /\ FileSystem[argv["validate_metadata_file"].s].json
    /\ FileSystem[argv["validate_metadata_file"].s].mapping
    /\ FileSystem[argv["validate_metadata_file"].s].hash # <<>>

HashesMatch ==
    FileSystem[argv["validate_metadata_file"].s].hash
        = calculate_file_hash(FileSystem[argv["validate_metadata_file"].s].data)

MismatchText == "The recorded hash {} does not match the calculated one {calculated_hash}!"

OverridingSuccess ==
    outcome.msg.text \in {"{cli_version}", "The file {} seems a valid metadata file."}

RegionRequiredText == "the following arguments are required: --region/-r"

\* no option other than region has a raw value that fails its coercer
NoOtherCoercionFailure == \A d \in DestSet \ {"region"} : ~FailsCoercion(d)

AllSteps ==
    <<"parse_args", "version", "validate_metadata_file", "account_ids_pair",
      "regions_pair", "export_all", "zone_group", "account_group", "frameworks",
      "account_ids", "regions", "export_path", "return">>

\* the step at which the invocation has to end: the first check that fails,
\* the overriding action, or the return
ExpectedEnd ==
    IF ~NoCoercionFailure THEN "parser"
    ELSE IF argv["version"] # Unset THEN "version"
    ELSE IF argv["validate_metadata_file"] # Unset THEN "validate_metadata_file"
    ELSE LET violated == ViolatedIn(CodeOrder)
         IN  IF violated = {} THEN "return"
             ELSE CodeOrder[CHOOSE i \in violated : \A j \in violated : i <= j]

\* the steps evaluated are the statements of the code up to the last one
\* evaluated, each once and in order
RanInOrder == trace = SubSeq(AllSteps, 1, Len(trace))

C13_Repeatable ==
    (Done /\ earlier # <<>>)
        => /\ argv = earlier[1].argv
                => /\ outcome = earlier[1].outcome
                   /\ outcome.kind = "return" => args = earlier[1].args
           /\ EndingStep = ExpectedEnd
           /\ (argv["region"] = Unset /\ ~Truthy(env["AWS_LABELER_REGION"])
                    /\ NoOverridingFlag /\ NoCoercionFailure)
                => FailedWith(RegionRequiredText)

\* the version was printed by an invocation with no region; the later
\* invocation without the version flag fails for the missing region
C13_Witness ==
    /\ Done /\ earlier # <<>>
    /\ earlier[1].argv["version"] # Unset
    /\ earlier[1].outcome.status = 0 /\ earlier[1].outcome.kind = "exit"
    /\ argv["version"] = Unset
    /\ FailedWith(RegionRequiredText)

\* no check other than the given stage's is violated by what was supplied
NoOtherViolation(stage) ==
    \A i \in 1..Len(CodeOrder) : Violates(CodeOrder[i]) => CodeOrder[i] = stage

(***************************************************************************)
(* C14.  With a valid region and exactly one zone-scope option set (and    *)
(* nothing else supplied that fails a check of its own), resolution        *)
(* succeeds with frameworks the empty list when --frameworks is given the  *)
(* empty string, and with frameworks the fixed default set when neither    *)
(* the flag nor AWS_LABELER_FRAMEWORKS is given.                           *)
(***************************************************************************)
C14_Frameworks ==
    (Done /\ NoOverridingFlag /\ ValidRegion /\ HowManySet(ZoneScope) = 1
          /\ NoOtherViolation("frameworks"))
        => /\ argv["frameworks"] = Str(<<>>)
                => outcome = Returned /\ args["frameworks"] = List(<<>>)
           /\ (argv["frameworks"] = Unset /\ env["AWS_LABELER_FRAMEWORKS"] = Unset)
                => /\ outcome = Returned
                   /\ args["frameworks"] = DEFAULT_SECURITY_HUB_FRAMEWORKS

\* returned with the empty list although the variable names a framework
C14_Witness ==
    /\ Done /\ outcome = Returned
    /\ argv["frameworks"] = Str(<<>>)
    /\ env["AWS_LABELER_FRAMEWORKS"] # Unset
    /\ args["frameworks"] = List(<<>>)
    /\ IsSet("organizations_zone_name")

\* returned with the default set, neither the flag nor the variable given
C14_DefaultReached ==
    /\ Done /\ outcome = Returned
    /\ argv["frameworks"] = Unset /\ env["AWS_LABELER_FRAMEWORKS"] = Unset
    /\ args["frameworks"] = DEFAULT_SECURITY_HUB_FRAMEWORKS

\* the delimited tokens of the text an option was given, by flag or variable
Tokens(dest) == NonEmptyEntries(ReSplit(RawValue(dest).s))

AllTokensValid(dest) ==
    \A i \in 1..Len(Tokens(dest)) : is_valid_account_id(Tokens(dest)[i])

\* the option is one of the two account id lists, given by flag or variable
\* with a valid region and an organizations zone, and nothing else supplied
\* fails a check of its own
AccountIdsGiven(dest) ==
    /\ Done /\ NoOverridingFlag /\ ValidRegion
    /\ IsSet("organizations_zone_name")
    /\ RawValue(dest).t = "str"
    /\ NoOtherViolation("account_ids")

InvalidAccountIdsExit(value) ==
    ParserError(Msg("", "{} contains invalid account ids.", value))

(***************************************************************************)
(* C15.  As stated: for allowed-account-ids and denied-account-ids, given  *)
(* by flag or variable with a valid region and an organizations zone, if   *)
(* every delimited token is a valid account id, resolution succeeds and    *)
(* the option equals the list of those ids in the given order; if any      *)
(* token is not, resolution fails with exactly '<resolved value> contains  *)
(* invalid account ids.'.                                                  *)
(***************************************************************************)
C15_AsStated ==
    \A dest \in {"allowed_account_ids", "denied_account_ids"} :
        AccountIdsGiven(dest)
            => IF AllTokensValid(dest)
               THEN outcome = Returned /\ args[dest] = List(Tokens(dest))
               ELSE outcome = InvalidAccountIdsExit(Resolved(dest))

\* C15, amended: as stated, except that a single valid id is held as the
\* bare string, not as a one-element list.
C15_AccountIds ==
    \A dest \in {"allowed_account_ids", "denied_account_ids"} :
        AccountIdsGiven(dest)
            => IF AllTokensValid(dest)
               THEN /\ outcome = Returned
                    /\ args[dest] = IF Len(Tokens(dest)) = 1
                                    THEN Str(Tokens(dest)[1])
                                    ELSE List(Tokens(dest))
               ELSE outcome = InvalidAccountIdsExit(Resolved(dest))

\* two denied ids from the variable returned as a list in their order
C15_Witness ==
    /\ AccountIdsGiven("denied_account_ids")
    /\ argv["denied_account_ids"] = Unset
    /\ outcome = Returned
    /\ args["denied_account_ids"] = List(<<ID_1, ID_2>>)

\* a denied id that is no account id, rejected with the message
C15_InvalidReached ==
    /\ AccountIdsGiven("denied_account_ids")
    /\ outcome = InvalidAccountIdsExit(Str(BAD_ID))

C16_AccountIdsReached ==
    /\ Done /\ NoOverridingFlag /\ ValidRegion
    /\ IsSet("organizations_zone_name")
    /\ BothAccountIdLists
    /\ FailedWith(AccountIdsPairText)

AccountGroupText ==
    "arguments --allowed-account-ids/-a --denied-account-ids/-d --single-account-id/-s are mutually exclusive"

RegionGroupText ==
    "arguments --allowed-regions/-ar --denied-regions/-dr are mutually exclusive"

\* parse_args succeeded and no overriding action ended the invocation
ChecksReached == Done /\ NoOverridingFlag /\ ~Violates("parser")

(***************************************************************************)
(* C18.  As stated: for every exclusion group (zone-scope, account-filter, *)
(* region-filter), whenever more than one member is non-empty and the      *)
(* group's conflict is the one reported, the message lists every declared  *)
(* member in declaration order with its flag aliases, in the form          *)
(* 'arguments <member> <member> ... are mutually exclusive'.               *)
(***************************************************************************)
C18_AsStated ==
    ChecksReached
        => /\ (HowManySet(ZoneScope) > 1 /\ ~BothAccountIdLists /\ ~BothRegionLists)
                => FailedWith(ZoneExclusiveText)
           /\ (HowManySet(AccountFilter) > 1 /\ HowManySet(ZoneScope) = 1
                    /\ ~BothRegionLists)
                => FailedWith(AccountGroupText)
           /\ (HowManySet(RegionFilter) > 1 /\ ~BothAccountIdLists)
                => FailedWith(RegionGroupText)

\* C18, amended: the zone-scope group, and the account-filter group when
\* allowed and denied account ids are not both non-empty, report more than
\* one non-empty member with the message listing every declared member,
\* 'arguments <member> <member> ... are mutually exclusive'; allowed with
\* denied account ids, and allowed with denied regions, are reported in the
\* pairwise form 'argument <member>: not allowed with argument <member>'.
C18_GroupMessages ==
    ChecksReached
        => /\ (HowManySet(ZoneScope) > 1 /\ ~BothAccountIdLists /\ ~BothRegionLists)
                => FailedWith(ZoneExclusiveText)
           /\ (HowManySet(AccountFilter) > 1 /\ HowManySet(ZoneScope) = 1
                    /\ ~BothAccountIdLists /\ ~BothRegionLists)
                => FailedWith(AccountGroupText)
           /\ BothAccountIdLists => FailedWith(AccountIdsPairText)
           /\ (HowManySet(RegionFilter) > 1 /\ ~BothAccountIdLists)
                => FailedWith(RegionsPairText)

\* organizations zone and single account id, nothing of the audit zone: the
\* message names all three members
C18_Witness ==
    /\ ChecksReached
    /\ IsSet("organizations_zone_name") /\ IsSet("single_account_id")
    /\ ~IsSet("audit_zone_name")
    /\ FailedWith(ZoneExclusiveText)

\* single account id with both lists of account ids: the pairwise message
C18_PairwiseReached ==
    /\ ChecksReached
    /\ IsSet("single_account_id") /\ BothAccountIdLists
    /\ FailedWith(AccountIdsPairText)

\* the values the claim lists as true
TrueSpellings ==
    {Str(<<"t">>), Str(<<"T">>), Str(<<"t", "r", "u", "e">>),
     Str(<<"T", "r", "u", "e">>), Str(<<"1">>), PyInt(1),
     Str(<<"T", "R", "U", "E">>), Bool(TRUE)}

(***************************************************************************)
(* C19.  environment_variable_boolean(v) returns true exactly when v is    *)
(* one of 't', 'T', 'true', 'True', '1', 1, 'TRUE' or the boolean True,    *)
(* returns false for every other input, and never raises.                  *)
(***************************************************************************)
C19_Boolean ==
    (pc = "returned" /\ result.by = "environment_variable_boolean")
        => /\ ~result.raised
           /\ result.value = Bool(given \in TrueSpellings)

\* 'TruE' is a spelling of true in another case: false
C19_Witness ==
    /\ pc = "returned" /\ result.by = "environment_variable_boolean"
    /\ given = Str(<<"T", "r", "u", "E">>)
    /\ result.value = Bool(FALSE)

\* 'True' is one of the spellings: true
C19_TrueReached ==
    /\ pc = "returned" /\ result.by = "environment_variable_boolean"
    /\ given = Str(<<"T", "r", "u", "e">>)
    /\ result.value = Bool(TRUE)

\* where the tokens of a text start: at a character that is no separator and
\* follows a separator or nothing
TokenStarts(chars) ==
    {i \in 1..Len(chars) :
        /\ chars[i] \notin DelimitingCharacters
        /\ i = 1 \/ chars[i - 1] \in DelimitingCharacters}

\* where the token starting at s ends: before the next separator or the end
TokenEnd(chars, s) ==
    CHOOSE e \in s..Len(chars) :
        /\ \A j \in s..e : chars[j] \notin DelimitingCharacters
        /\ e = Len(chars) \/ chars[e + 1] \in DelimitingCharacters

\* the tokens of a text, from left to right
TokensOfText(chars) ==
    LET starts == TokenStarts(chars)
        start(k) == CHOOSE s \in starts : Cardinality({t \in starts : t < s}) = k - 1
    IN  [k \in 1..Cardinality(starts) |->
            SubSeq(chars, start(k), TokenEnd(chars, start(k)))]

(***************************************************************************)
(* C20.  character_delimited_list_variable applied to a text whose tokens  *)
(* are separated by any mix of commas, pipes and whitespace returns the    *)
(* tokens in their original order with the empty ones removed: the bare    *)
(* text when exactly one token results, the empty list when none does.     *)
(***************************************************************************)
C20_DelimitedList ==
    (pc = "returned" /\ result.by = "character_delimited_list_variable"
        /\ given.t = "str")
        => LET tokens == TokensOfText(given.s)
           IN  /\ ~result.raised
               /\ result.value = IF Len(tokens) = 1 THEN Str(tokens[1])
                                 ELSE List(tokens)

\* a comma, a space and a pipe between and after two tokens
C20_Witness ==
    /\ pc = "returned" /\ result.by = "character_delimited_list_variable"
    /\ given = Str(<<"b", ",", " ", "a", "|">>)
    /\ result.value = List(<<(<<"b">>), (<<"a">>)>>)

\* one token among separators, returned bare
C20_BareReached ==
    /\ pc = "returned" /\ result.by = "character_delimited_list_variable"
    /\ given = Str(<<"|", "a", "b", "\t">>)
    /\ result.value = Str(<<"a", "b">>)

\* separators only: the empty list
C20_EmptyReached ==
    /\ pc = "returned" /\ result.by = "character_delimited_list_variable"
    /\ given = Str(<<",", " ">>)
    /\ result.value = List(<<>>)

\* the input parses as an integer greater than 0
ParsesPositive(v) == IntOfValue(v).ok /\ IntOfValue(v).n > 0

C21_ValueReached ==
    /\ pc = "returned" /\ result.by = "positive_integer"
    /\ given = Str(<<"0", "1", "4">>)
    /\ result.value = PyInt(14)

\* None is returned as it is
C21_NoneReached ==
    /\ pc = "returned" /\ result.by = "positive_integer"
    /\ given = None /\ result.value = None /\ ~result.raised

\* AWS_LABELER_EXPORT_ONLY_METRICS holds a supported spelling of true
ExportOnlyMetricsSet ==
    /\ env["AWS_LABELER_EXPORT_ONLY_METRICS"] # Unset
    /\ env["AWS_LABELER_EXPORT_ONLY_METRICS"] \in TrueSpellings

(***************************************************************************)
(* C22.  In every configuration returned by get_arguments, export_all is   *)
(* false if and only if the --export-metrics-only/-e flag was given or the *)
(* AWS_LABELER_EXPORT_ONLY_METRICS environment variable holds one of the   *)
(* supported truthy spellings; otherwise export_all is true, its default.  *)
(***************************************************************************)
C22_ExportAll ==
    (Done /\ outcome.kind = "return")
        => /\ args.export_all \in {Bool(TRUE), Bool(FALSE)}
           /\ args.export_all = Bool(FALSE)
                <=> (argv["export_all"] # Unset \/ ExportOnlyMetricsSet)

\* the variable alone, holding 'true', made export_all false
C22_Witness ==
    /\ Done /\ outcome.kind = "return"
    /\ argv["export_all"] = Unset
    /\ env["AWS_LABELER_EXPORT_ONLY_METRICS"] = Str(<<"t", "r", "u", "e">>)
    /\ args.export_all = Bool(FALSE)

\* the variable holding 'no' and no flag: export_all kept its default
C22_DefaultReached ==
    /\ Done /\ outcome.kind = "return"
    /\ argv["export_all"] = Unset
    /\ env["AWS_LABELER_EXPORT_ONLY_METRICS"] = Str(<<"n", "o">>)
    /\ args.export_all = Bool(TRUE)

\* the flag alone made export_all false
C22_FlagReached ==
    /\ Done /\ outcome.kind = "return"
    /\ argv["export_all"] # Unset
    /\ env["AWS_LABELER_EXPORT_ONLY_METRICS"] = Unset
    /\ args.export_all = Bool(FALSE)

\* the values Python takes for false
Falsy == {None, Str(<<>>), List(<<>>), PySet(<<>>), Bool(FALSE), PyInt(0)}

\* k, the number of truthy arguments
TruthyArguments == Cardinality({i \in 1..Len(group.args) : group.args[i] \notin Falsy})

(***************************************************************************)
(* C23.  get_mutually_exclusive_args, with k the number of truthy          *)
(* arguments: raises MutuallyExclusiveArguments if and only if k > 1;      *)
(* raises MissingRequiredArguments if and only if k = 0 and required is    *)
(* true; in every other case (k = 1, or k = 0 and not required) it         *)
(* succeeds and raises nothing.  The mutual-exclusion check comes before   *)
(* the missing-required check.                                             *)
(***************************************************************************)
C23_MutuallyExclusive ==
    (pc = "returned" /\ result.by = "get_mutually_exclusive_args")
        => /\ result.exc = "MutuallyExclusiveArguments" <=> TruthyArguments > 1
           /\ result.exc = "MissingRequiredArguments"
                <=> (TruthyArguments = 0 /\ group.required)
           /\ (TruthyArguments = 1 \/ (TruthyArguments = 0 /\ ~group.required))
                => (~result.raised /\ result.exc = "" /\ result.value = group.args)
           /\ result.raised <=> result.exc # ""

\* a required group of three arguments, two of them set and one empty
C23_Witness ==
    /\ pc = "returned" /\ result.by = "get_mutually_exclusive_args"
    /\ group.required /\ Len(group.args) = 3
    /\ TruthyArguments = 2
    /\ result.exc = "MutuallyExclusiveArguments"

\* a required group whose arguments are all empty or absent
C23_MissingReached ==
    /\ pc = "returned" /\ result.by = "get_mutually_exclusive_args"
    /\ group.required /\ Len(group.args) = 3
    /\ TruthyArguments = 0
    /\ result.exc = "MissingRequiredArguments"

\* a group that is not required, with nothing set, returns its arguments
C23_ReturnReached ==
    /\ pc = "returned" /\ result.by = "get_mutually_exclusive_args"
    /\ ~group.required /\ Len(group.args) = 2
    /\ TruthyArguments = 0
    /\ ~result.raised /\ result.value = group.args

\* str.lower of a letter of the spellings
LowerLetter(c) ==
    CASE c = "T" -> "t" [] c = "R" -> "r" [] c = "U" -> "u" [] c = "E" -> "e"
      [] OTHER -> c

Lower(chars) == [i \in 1..Len(chars) |-> LowerLetter(chars[i])]

\* the value is a case variant of 't', 'true' or '1'
CaseVariantOfTrue(v) ==
    /\ v.t = "str"
    /\ Lower(v.s) \in {<<"t">>, <<"t", "r", "u", "e">>, <<"1">>}

\* the spellings the coercer lists
ListedSpellings ==
    {<<"t">>, <<"T">>, <<"t", "r", "u", "e">>, <<"T", "r", "u", "e">>,
     <<"T", "R", "U", "E">>, <<"1">>}

\* C24, as stated: every case variant of 't', 'true' and '1' yields true
C24_AsStated ==
    (pc = "returned" /\ result.by = "environment_variable_boolean"
        /\ CaseVariantOfTrue(given))
        => result.value = Bool(TRUE)

(***************************************************************************)
(* C24, amended.  The boolean coercer matches truthy tokens by exact       *)
(* spelling: of the case variants of 't', 'true' and '1', the six          *)
(* spellings 't', 'T', 'true', 'True', 'TRUE' and '1' yield true and every *)
(* other one (for example 'TrUe', 'tRUE') yields false.                    *)
(***************************************************************************)
C24_ExactSpelling ==
    (pc = "returned" /\ result.by = "environment_variable_boolean"
        /\ CaseVariantOfTrue(given))
        => result.value = Bool(given.s \in ListedSpellings)

\* 'tRUE' is a case variant of 'true' that is not listed: false
C24_Witness ==
    /\ pc = "returned" /\ result.by = "environment_variable_boolean"
    /\ given = Str(<<"t", "R", "U", "E">>)
    /\ result.value = Bool(FALSE)

\* 'TRUE' is listed: true
C24_ListedReached ==
    /\ pc = "returned" /\ result.by = "environment_variable_boolean"
    /\ given = Str(<<"T", "R", "U", "E">>)
    /\ result.value = Bool(TRUE)

\* the text Python writes for the objects given to the coercer
WrittenAs(v) ==
    CASE v = None -> <<"N", "o", "n", "e">>
      [] v = Bool(TRUE) -> <<"T", "r", "u", "e">>
      [] v = Bool(FALSE) -> <<"F", "a", "l", "s", "e">>
      [] v = PyInt(-2) -> <<"-", "2">>
      [] v = PyInt(0) -> <<"0">>
      [] v = PyInt(1) -> <<"1">>
      [] v = PyInt(2) -> <<"2">>
      [] v = List(<<>>) -> <<"[", "]">>
      [] v = List(<<<<"t">>>>) -> <<"[", "'", "t", "'", "]">>
      [] v = List(<<<<"a">>, <<"b">>>>)
            -> <<"[", "'", "a", "'", ",", " ", "'", "b", "'", "]">>

\* C25, as stated: None gives None, and a value that is no text gives itself
C25_AsStated ==
    (pc = "returned" /\ result.by = "character_delimited_list_variable"
        /\ given.t # "str")
        => result.value = given

(***************************************************************************)
(* C25, amended.  The delimited-list coercer passes no input through: it   *)
(* splits the text Python writes for its input.  Applied to None it        *)
(* returns the text 'None', and applied to a value that is no text it      *)
(* returns the tokens of the text written for that value (the bare text    *)
(* when there is one token), never the value itself.                       *)
(***************************************************************************)
C25_WrittenText ==
    (pc = "returned" /\ result.by = "character_delimited_list_variable"
        /\ given.t # "str")
        => LET tokens == TokensOfText(WrittenAs(given))
           IN  /\ ~result.raised
               /\ result.value = IF Len(tokens) = 1 THEN Str(tokens[1])
                                 ELSE List(tokens)
               /\ result.value # given

\* None comes back as the text 'None'
C25_Witness ==
    /\ pc = "returned" /\ result.by = "character_delimited_list_variable"
    /\ given = None
    /\ result.value = Str(<<"N", "o", "n", "e">>)

\* a list of two texts comes back as the two pieces of its written form
C25_ListReached ==
    /\ pc = "returned" /\ result.by = "character_delimited_list_variable"
    /\ given = List(<<<<"a">>, <<"b">>>>)
    /\ result.value = List(<<(<<"[", "'", "a", "'">>), (<<"'", "b", "'", "]">>)>>)

\* the number 0 comes back as the text '0'
C25_NumberReached ==
    /\ pc = "returned" /\ result.by = "character_delimited_list_variable"
    /\ given = PyInt(0)
    /\ result.value = Str(<<"0">>)

\* the options other than the overriding ones whose value fails its coercer
FailingOthers == {d \in RejectingDests \ OverridingDests : FailsCoercion(d)}

\* the parser's error for an option whose value fails its coercer
CoercionError(dest) ==
    ParserError([GetValue(dest, RawValue(dest).s).msg EXCEPT !.option = OptionStrings(dest)])

C26_RegionReached ==
    /\ Done /\ argv["validate_metadata_file"] # Unset
    /\ ~FailsCoercion("validate_metadata_file")
    /\ argv["region"] # Unset /\ FailingOthers = {"region"}
    /\ outcome = CoercionError("region")

\* --version with an empty AWS_LABELER_REGION: the empty text is no region
C26_EmptyRegionReached ==
    /\ Done /\ argv["version"] # Unset
    /\ argv["region"] = Unset /\ env["AWS_LABELER_REGION"] = Str(<<>>)
    /\ outcome = CoercionError("region")

\* --version with a days count that is no positive integer
C26_DaysReached ==
    /\ Done /\ argv["version"] # Unset
    /\ FailingOthers = {"report_closed_findings_days"}
    /\ outcome = CoercionError("report_closed_findings_days")

\* a local filesystem path: empty scheme, empty network location, a path
LocalLocation(chars) ==
    /\ UrlParse(chars).scheme = <<>>
    /\ UrlParse(chars).netloc = <<>>
    /\ UrlParse(chars).path # <<>>

\* an s3 URL, as the type property takes it: scheme s3 and a path
S3Location(chars) ==
    /\ UrlParse(chars).scheme = <<"s", "3">>
    /\ UrlParse(chars).path # <<>>

(***************************************************************************)
(* C27.  As stated: helpers.DestinationPath validates a location as either *)
(* a local filesystem path (empty scheme, empty network location,          *)
(* non-empty path) or an s3 URL: is_valid() returns true exactly for those *)
(* locations, is_valid() is true if and only if the type property returns  *)
(* 's3' or 'local' instead of raising InvalidPath, and DataExporter.export *)
(* raises InvalidPath exactly for locations of neither kind.               *)
(***************************************************************************)
C27_AsStated ==
    (pc = "returned" /\ result.by \in {"is_valid", "type", "export"})
        => LET either == LocalLocation(given.s) \/ S3Location(given.s)
           IN  /\ result.by = "is_valid" => result.value = Bool(either)
               /\ result.by = "type" => (result.raised <=> ~either)
               /\ result.by = "export" => (result.exc = "InvalidPath" <=> ~either)

\* what the code does: is_valid() is true for the s3 locations only
C27_S3Only ==
    (pc = "returned" /\ result.by \in {"is_valid", "export"})
        => /\ result.by = "is_valid" => result.value = Bool(S3Location(given.s))
           /\ result.by = "export" => (result.exc = "InvalidPath" <=> ~S3Location(given.s))

\* the local path a/a is refused by export
C27_LocalRefused ==
    /\ pc = "returned" /\ result.by = "export"
    /\ given = Str(<<"a", "/", "a">>)
    /\ result.exc = "InvalidPath"

\* the type of the local path a/a is 'local'
C27_LocalType ==
    /\ pc = "returned" /\ result.by = "type"
    /\ given = Str(<<"a", "/", "a">>)
    /\ result.value = Str(<<"local">>)

\* the positions of the entries that go into a report
ReportPositions == {i \in 1..Len(metadata) : metadata[i].is_report_entry}

\* the k-th report position, counted from the front
ReportPosition(k) ==
    CHOOSE i \in ReportPositions : Cardinality({j \in ReportPositions : j <= i}) = k

\* the last position of a title
LastPosition(title) ==
    CHOOSE i \in 1..Len(metadata) :
        /\ metadata[i].title = title
        /\ \A j \in (i + 1)..Len(metadata) : metadata[j].title # title

\* report_table and data, read off the entries
TableAndData ==
    /\ \A i \in 1..Len(metadata) : metadata[i].class = "MetadataEntry"
    /\ Len(report_table(metadata)) = Cardinality(ReportPositions)
    /\ \A k \in 1..Cardinality(ReportPositions) :
        report_table(metadata)[k]
            = <<metadata[ReportPosition(k)].title, metadata[ReportPosition(k)].value>>
    /\ DOMAIN data(metadata) = {metadata[i].title : i \in 1..Len(metadata)}
    /\ \A t \in DOMAIN data(metadata) : data(metadata)[t] = metadata[LastPosition(t)].value

\* one call of add_entry: an entry is appended, anything else raises
\* ValueError and leaves the container as it was
AddEntryStep ==
    /\ result'.by = "add_entry"
    /\ IF given'.class = "MetadataEntry"
       THEN ~result'.raised /\ metadata' = metadata \o <<given'>>
       ELSE result'.exc = "ValueError" /\ metadata' = metadata

(***************************************************************************)
(* C28.  For any sequence of Metadata.add_entry calls: a call with a       *)
(* MetadataEntry appends it as the last entry; a call with anything else   *)
(* raises ValueError and leaves the container unchanged; at every point    *)
(* report_table equals the [title, value] pairs of exactly the entries     *)
(* with is_report_entry true, in insertion order, and data maps each title *)
(* to the value of the most recently added entry with that title.          *)
(***************************************************************************)
C28_Metadata == [](pc = "metadata" => TableAndData) /\ [][AddEntryStep]_vars

\* three entries (a, 1, reported), (b, 1, not reported), (a, 2, reported),
\* then a call with an object that is no entry
C28_Witness ==
    /\ pc = "metadata"
    /\ metadata = <<MetadataEntry(<<"a">>, <<"1">>, TRUE),
                    MetadataEntry(<<"b">>, <<"1">>, FALSE),
                    MetadataEntry(<<"a">>, <<"2">>, TRUE)>>
    /\ report_table(metadata) = <<(<<(<<"a">>), (<<"1">>)>>), (<<(<<"a">>), (<<"2">>)>>)>>
    /\ data(metadata)[<<"a">>] = <<"2">>
    /\ data(metadata)[<<"b">>] = <<"1">>

\* an object with the attributes of an entry, of another class, was refused
C28_RefusedReached ==
    /\ pc = "metadata"
    /\ Len(metadata) = 2
    /\ given.class = "SimpleNamespace"
    /\ result.exc = "ValueError"

\* the files the k-th export call wrote, in order
WrittenBy(k) == SubSeq(exporter.written, 3 * k - 2, 3 * k)

(***************************************************************************)
(* C29.  As stated: export_as_json_to_s3 uploads each of the three         *)
(* prepared files (energy label, findings, labeled accounts) to the S3     *)
(* location and export_as_json_to_fs writes each to the local directory;   *)
(* across any sequence of export calls on one exporter the export data is  *)
(* prepared from the labeler at most once and reused.                      *)
(***************************************************************************)
C29_AsStated ==
    pc = "exporter"
        => /\ exporter.prepared <= 1
           /\ Len(exporter.written) = 3 * Len(exporter.calls)
           /\ \A k \in 1..Len(exporter.calls) : \A i \in 1..3 :
                /\ WrittenBy(k)[i].filename = FILENAMES[i]
                /\ WrittenBy(k)[i].to = IF exporter.calls[k] = "export_as_json_to_s3" THEN "s3"
                                        ELSE "fs"

\* what the code does: the data is prepared once and every call, of either
\* method, writes the three files to the local file system
C29_PreparedOnce ==
    pc = "exporter"
        => /\ exporter.prepared = IF exporter.calls = <<>> THEN 0 ELSE 1
           /\ Len(exporter.written) = 3 * Len(exporter.calls)
           /\ \A k \in 1..Len(exporter.calls) : \A i \in 1..3 :
                /\ WrittenBy(k)[i].filename = FILENAMES[i]
                /\ WrittenBy(k)[i].to = "fs"

\* export_as_json_to_s3 with an S3 location wrote three local files
C29_LocalWriteReached ==
    /\ pc = "exporter"
    /\ exporter.calls = <<"export_as_json_to_s3">>
    /\ given = Str(S3_URL)
    /\ \A i \in 1..3 : exporter.written[i].to = "fs" /\ exporter.written[i].location = S3_URL

\* the method was called once, with its argument or with none
CalledOnce(arguments) == waiting.calls = <<arguments>>

\* wait_for_findings has ended
Waited == pc \in {"exited", "returned"} /\ result.by = "wait_for_findings"

(***************************************************************************)
(* C30.  As stated: wait_for_findings calls the supplied callable exactly  *)
(* once (with the argument when one is given, without it otherwise) for    *)
(* every log level; if the callable raises any exception the process       *)
(* terminates with exit status 1 and the exception never propagates to the *)
(* caller; otherwise the callable's result is returned unchanged.          *)
(***************************************************************************)
C30_AsStated ==
    Waited
        => /\ CalledOnce(IF waiting.argument # None THEN <<waiting.argument>> ELSE <<>>)
           /\ IF waiting.method.raises # ""
              THEN outcome = SystemExit(1) /\ ~result.raised
              ELSE /\ outcome = NoOutcome /\ ~result.raised
                   /\ result.value = waiting.method.returns

(***************************************************************************)
(* C30, amended.  wait_for_findings calls the supplied callable exactly    *)
(* once for every log level, with the argument when the argument is        *)
(* truthy and without it otherwise (None, or an empty argument); if the    *)
(* callable raises an exception derived from Exception the process         *)
(* terminates with exit status 1 and the exception never propagates to the *)
(* caller; an exception that is not derived from Exception                 *)
(* (KeyboardInterrupt) propagates to the caller; otherwise the callable's  *)
(* result is returned unchanged.                                           *)
(***************************************************************************)
C30_WaitForFindings ==
    Waited
        => /\ CalledOnce(IF waiting.argument \notin Falsy THEN <<waiting.argument>>
                         ELSE <<>>)
           /\ IF waiting.method.raises \in ExceptionClasses
              THEN outcome = SystemExit(1) /\ ~result.raised /\ pc = "exited"
              ELSE IF waiting.method.raises # ""
              THEN /\ outcome = NoOutcome
                   /\ result.raised /\ result.exc = waiting.method.raises
              ELSE /\ outcome = NoOutcome /\ ~result.raised
                   /\ result.value = waiting.method.returns

\* at log level debug the method, called with its query filter, raised
\* ClientError: exit status 1
C30_Witness ==
    /\ Waited
    /\ waiting.log_level = "debug"
    /\ waiting.method.raises = "ClientError"
    /\ waiting.calls = <<(<<List(<<ID_1>>)>>)>>
    /\ outcome = SystemExit(1)

\* an interrupt of the method reached the caller
C30_InterruptReached ==
    /\ Waited
    /\ waiting.method.raises = "KeyboardInterrupt"
    /\ result.exc = "KeyboardInterrupt"
    /\ outcome = NoOutcome

\* an empty query filter: the method was called without it and its findings
\* were returned
C30_EmptyReached ==
    /\ Waited
    /\ waiting.argument = List(<<>>)
    /\ waiting.calls = <<(<<>>)>>
    /\ result.value = List(<<ID_1, ID_2>>)

====
